---- MODULE Spec2Model ----
(***************************************************************************)
(* Response validation and correction engine of the DANI agent:            *)
(*   ResponseParser   (src/src/response-parser.ts)                         *)
(*   MathValidator    (src/src/math-validator.ts)                          *)
(*   ResponseCorrector(src/src/response-corrector.ts)                      *)
(*   DANIAgent.validateAndCorrectResponse (src/src/agent.ts)               *)
(* and the conversation handling of DANIAgent: processMessage, the agentic *)
(* loop, the trimming of the history and the periodic cleanup.             *)
(*                                                                         *)
(* Texts are TLA+ strings with JavaScript's 0-based offsets.  Numbers are  *)
(* fixed-point integers in hundredths (98.73 is 9873, the count 12 is      *)
(* 1200); the inputs carry at most two decimals.  JSON documents are       *)
(* tagged values (obj / arr / num / str / null).                           *)
(***************************************************************************)
EXTENDS Integers, Sequences, FiniteSets, TLC

VARIABLES
  pc,            \* position inside validateAndCorrectResponse
  responseText,  \* the LLM's final answer text
  toolResultsCache, \* the tool results the agentic loop has collected
  toolResults,   \* the tool-result corpus handed to the engine
  parsed,        \* ParsedResponse
  validations,   \* ValidationResult[]
  mismatches,    \* result of detectCountListMismatches
  response,      \* CorrectedResponse
  vClaim,        \* validate(): the claim under validation
  vConfig,       \* validate(): the ValidationConfig of the validator
  vResult,       \* validate(): the ValidationResult
  cText,         \* commit step: the original text
  cPool,         \* commit step: corrections in insertion order
  cOut,          \* commit step: the corrected text
  conversations, \* DANIAgent.conversations: conversation id -> Conversation
  heap,          \* the Conversation objects ever created
  call,          \* the processMessage call in progress, and the last outcome
  agentConfig,   \* AgentConfig
  now            \* Date.now(), in units of the conversation timeout

agentVars == <<conversations, heap, call, agentConfig, now>>

engineVars == <<responseText, toolResultsCache, toolResults, parsed, validations, mismatches,
                response, vClaim, vConfig, vResult, cText, cPool, cOut>>

vars == <<pc, engineVars, agentVars>>

undefined == "<undefined>"

Min(a, b) == IF a < b THEN a ELSE b
Max(a, b) == IF a > b THEN a ELSE b
Abs(x) == IF x < 0 THEN 0 - x ELSE x

(***************************************************************************)
(* JavaScript string primitives                                            *)
(***************************************************************************)
\* s.substring(a, b)
Substring(s, a, b) ==
  LET Clamp(i) == Max(0, Min(i, Len(s)))
      lo == Min(Clamp(a), Clamp(b))
      hi == Max(Clamp(a), Clamp(b))
  IN SubSeq(s, lo + 1, hi)

\* s.substring(a)
SubstringFrom(s, a) == Substring(s, a, Len(s))

\* s.charAt(i), "" outside the string
CharAt(s, i) == IF i >= 0 /\ i < Len(s) THEN SubSeq(s, i + 1, i + 1) ELSE ""

\* the least element of a set of numbers, -1 for the empty set
Least(S) == IF S = {} THEN -1 ELSE CHOOSE i \in S : \A j \in S : i <= j

\* s.indexOf(sub, from)
IndexOf(s, sub, from) ==
  Least({i \in from..(Len(s) - Len(sub)) :
           Substring(s, i, i + Len(sub)) = sub})

\* s.replace(search, repl) with a string pattern: the first occurrence only
Replace(s, search, repl) ==
  LET i == IndexOf(s, search, 0)
  IN IF i = -1 THEN s
     ELSE Substring(s, 0, i) \o repl \o SubstringFrom(s, i + Len(search))

IsSpace(c) == c \in {" ", "\n", "\t", "\r"}

RECURSIVE TrimLeft(_)
TrimLeft(s) == IF Len(s) > 0 /\ IsSpace(Head(s)) THEN TrimLeft(Tail(s)) ELSE s

RECURSIVE TrimRight(_)
TrimRight(s) ==
  IF Len(s) > 0 /\ IsSpace(CharAt(s, Len(s) - 1))
  THEN TrimRight(Substring(s, 0, Len(s) - 1)) ELSE s

\* s.trim()
Trim(s) == TrimRight(TrimLeft(s))

\* c.toLowerCase() for one character
ToLowerChar(c) ==
  CASE c = "A" -> "a" [] c = "B" -> "b" [] c = "C" -> "c" [] c = "D" -> "d"
    [] c = "E" -> "e" [] c = "F" -> "f" [] c = "G" -> "g" [] c = "H" -> "h"
    [] c = "I" -> "i" [] c = "J" -> "j" [] c = "K" -> "k" [] c = "L" -> "l"
    [] c = "M" -> "m" [] c = "N" -> "n" [] c = "O" -> "o" [] c = "P" -> "p"
    [] c = "Q" -> "q" [] c = "R" -> "r" [] c = "S" -> "s" [] c = "T" -> "t"
    [] c = "U" -> "u" [] c = "V" -> "v" [] c = "W" -> "w" [] c = "X" -> "x"
    [] c = "Y" -> "y" [] c = "Z" -> "z" [] OTHER -> c

RECURSIVE ToLowerCase(_)
ToLowerCase(s) ==
  IF s = "" THEN "" ELSE ToLowerChar(Head(s)) \o ToLowerCase(Tail(s))

\* s.includes(sub)
Includes(s, sub) == IndexOf(s, sub, 0) # -1

(***************************************************************************)
(* Numbers: fixed point, hundredths                                        *)
(***************************************************************************)
Cents(n) == n * 100

RECURSIVE DigitsVal(_, _)
DigitsVal(s, acc) ==
  IF s = "" THEN acc ELSE DigitsVal(Tail(s), acc * 10 + IndexOf("0123456789", Head(s), 0))

\* parseInt(s, 10) of a digit string
ParseInt(s) == Cents(DigitsVal(s, 0))

\* parseFloat(s) of digits with an optional fraction of one or two digits
ParseFloat(s) ==
  LET dot == IndexOf(s, ".", 0)
      ip == IF dot = -1 THEN s ELSE Substring(s, 0, dot)
      fr == IF dot = -1 THEN "" ELSE SubstringFrom(s, dot + 1)
      f2 == Substring(fr \o "00", 0, 2)
  IN Cents(DigitsVal(ip, 0)) + DigitsVal(f2, 0)

RECURSIVE RemoveCommas(_)
RemoveCommas(s) ==
  IF s = "" THEN ""
  ELSE (IF Head(s) = "," THEN "" ELSE Head(s)) \o RemoveCommas(Tail(s))

\* Number.prototype.toString of a non-negative number
NumToString(v) ==
  LET ip == v \div 100
      fp == v % 100
  IN IF fp = 0 THEN ToString(ip)
     ELSE IF fp % 10 = 0 THEN ToString(ip) \o "." \o ToString(fp \div 10)
     ELSE ToString(ip) \o "." \o ToString(fp \div 10) \o ToString(fp % 10)

\* v.toFixed(1)
ToFixed1(v) ==
  LET r == (v + 5) \div 10
  IN ToString(r \div 10) \o "." \o ToString(r % 10)

\* v.toFixed(2)
ToFixed2(v) ==
  ToString(v \div 100) \o "." \o ToString((v % 100) \div 10) \o ToString(v % 10)

(***************************************************************************)
(* Regular expressions.  A pattern is a sequence of nodes.  Match lists    *)
(* the ways the nodes can match from a state [pos, cs, ce] in the order the *)
(* backtracking search of RegExp.prototype.exec tries them (a greedy        *)
(* quantifier the longest run first, a lazy one the shortest); exec returns *)
(* the first, with capture group 1 in [cs, ce).                             *)
(***************************************************************************)
Lit(s) == [t |-> "lit", s |-> s]
Cls(c, min, greedy) ==
  [t |-> "cls", c |-> c, min |-> min, one |-> FALSE, greedy |-> greedy]
One(c) == [t |-> "cls", c |-> c, min |-> 1, one |-> TRUE, greedy |-> TRUE]
Opt(body) == [t |-> "opt", body |-> body]
Star(body) == [t |-> "star", body |-> body]
Alt(alts) == [t |-> "alt", alts |-> alts]
Cap(body) == [t |-> "cap", body |-> body]
Bol == [t |-> "bol"]
Eol == [t |-> "eol"]

\* character classes: \d, \s, . (no line terminator), [^)], [-*]
InClass(c, cls) ==
  CASE cls = "d" -> c \in {"0", "1", "2", "3", "4", "5", "6", "7", "8", "9"}
    [] cls = "s" -> IsSpace(c)
    [] cls = "." -> c # "" /\ c \notin {"\n", "\r"}
    [] cls = "[^)]" -> c # "" /\ c # ")"
    [] cls = "[-*]" -> c \in {"-", "*"}

\* the length of the longest run of class characters at pos
RunLen(text, pos, cls) ==
  Least({j \in pos..Len(text) : ~InClass(CharAt(text, j), cls)}) - pos

LitAt(text, pos, s, ci) ==
  LET t == Substring(text, pos, pos + Len(s))
  IN IF ci
     THEN /\ ToLowerChar(CharAt(text, pos)) = ToLowerChar(Head(s))
          /\ ToLowerCase(t) = ToLowerCase(s)
     ELSE t = s

RECURSIVE Flatten(_)
Flatten(ss) == IF ss = <<>> THEN <<>> ELSE Head(ss) \o Flatten(Tail(ss))

RECURSIVE Match(_, _, _, _)
RECURSIVE Step(_, _, _, _)

\* the outcomes of the nodes `todo` from each of the states, in order
Match(todo, text, states, ci) ==
  IF todo = <<>> \/ states = <<>> THEN states
  ELSE Match(Tail(todo), text,
             Flatten([i \in 1..Len(states) |->
                        Step(Head(todo), text, states[i], ci)]),
             ci)

\* the outcomes of one node from one state, in order
Step(n, text, st, ci) ==
  CASE n.t = "lit" ->
         IF LitAt(text, st.pos, n.s, ci)
         THEN <<[st EXCEPT !.pos = @ + Len(n.s)]>> ELSE <<>>
    [] n.t = "cls" ->
         LET run == IF n.one THEN Min(1, RunLen(text, st.pos, n.c))
                    ELSE RunLen(text, st.pos, n.c)
         IN IF run < n.min THEN <<>>
            ELSE [i \in 1..(run - n.min + 1) |->
                    [st EXCEPT !.pos = IF n.greedy THEN @ + run - (i - 1)
                                       ELSE @ + n.min + (i - 1)]]
    [] n.t = "opt" -> Match(n.body, text, <<st>>, ci) \o <<st>>
    [] n.t = "star" ->
         Match(<<n>>, text, Match(n.body, text, <<st>>, ci), ci) \o <<st>>
    [] n.t = "alt" ->
         Flatten([i \in 1..Len(n.alts) |-> Match(n.alts[i], text, <<st>>, ci)])
    [] n.t = "cap" ->
         LET inner == Match(n.body, text, <<[st EXCEPT !.cs = st.pos]>>, ci)
         IN [i \in 1..Len(inner) |-> [inner[i] EXCEPT !.ce = inner[i].pos]]
    [] n.t = "bol" ->
         IF st.pos = 0 \/ CharAt(text, st.pos - 1) \in {"\n", "\r"}
         THEN <<st>> ELSE <<>>
    [] n.t = "eol" ->
         IF st.pos = Len(text) \/ CharAt(text, st.pos) \in {"\n", "\r"}
         THEN <<st>> ELSE <<>>

\* one attempt of exec at the offset index: the first outcome, if any
MatchAt(re, text, ci, index) ==
  LET outcomes == Match(re, text, <<[pos |-> index, cs |-> -1, ce |-> -1]>>,
                        ci)
  IN IF outcomes = <<>> THEN [ok |-> FALSE, pos |-> -1, cs |-> -1, ce |-> -1]
     ELSE [ok |-> TRUE, pos |-> outcomes[1].pos, cs |-> outcomes[1].cs,
           ce |-> outcomes[1].ce]

RECURSIVE ExecAll(_, _, _, _)
ExecAll(re, text, ci, lastIndex) ==
  LET Found(index, r) ==
        IF index = -1 THEN <<>>
        ELSE <<[index |-> index,
                m0 |-> Substring(text, index, r.pos),
                m1 |-> Substring(text, r.cs, r.ce)]>>
             \o ExecAll(re, text, ci,
                        IF r.pos = index THEN index + 1 ELSE r.pos)
      From(index) == Found(index, MatchAt(re, text, ci, index))
  IN From(Least({i \in lastIndex..Len(text) : MatchAt(re, text, ci, i).ok}))

(***************************************************************************)
(* Array.prototype.sort with a numeric comparator (stable): the entries    *)
(* [k, v] in ascending order of k, equal keys keeping their order          *)
(***************************************************************************)
RECURSIVE InsertByKey(_, _)
InsertByKey(sorted, e) ==
  IF sorted = <<>> THEN <<e>>
  ELSE IF sorted[Len(sorted)].k <= e.k THEN Append(sorted, e)
  ELSE Append(InsertByKey(SubSeq(sorted, 1, Len(sorted) - 1), e),
              sorted[Len(sorted)])

RECURSIVE SortByKey(_)
SortByKey(s) ==
  IF s = <<>> THEN <<>>
  ELSE InsertByKey(SortByKey(SubSeq(s, 1, Len(s) - 1)), s[Len(s)])

Values(s) == [i \in 1..Len(s) |-> s[i].v]

\* s.filter(Keep) given the flags Keep(s[i]) as a sequence of booleans
RECURSIVE FilterFlags(_, _)
FilterFlags(s, keep) ==
  IF s = <<>> THEN <<>>
  ELSE (IF Head(keep) THEN <<Head(s)>> ELSE <<>>)
       \o FilterFlags(Tail(s), Tail(keep))

(***************************************************************************)
(* ResponseParser                                                          *)
(***************************************************************************)
Star1 == Opt(<<Lit("*")>>)
Ws0 == Cls("s", 0, TRUE)
Ws1 == Cls("s", 1, TRUE)
Digits == Cls("d", 1, TRUE)
Word(ws) == Alt([i \in 1..Len(ws) |-> <<Lit(ws[i])>>])
Devices == <<Lit("device"), Opt(<<Lit("s")>>)>>
Decimal == <<Digits, Opt(<<Lit("."), Digits>>)>>

Pattern(regex, ci, claimType, entityType, value, filter) ==
  [regex |-> regex, ci |-> ci, claimType |-> claimType,
   entityType |-> entityType, value |-> value, filter |-> filter]

CLAIM_PATTERNS == <<
  \* /\*?\*?(?:online|connected|active)\s*\([^)]*\)\s*:\*?\*?\s*(\d+)\s+devices?/gi
  Pattern(<<Star1, Star1, Word(<<"online", "connected", "active">>),
            Ws0, Lit("("), Cls("[^)]", 0, TRUE),
            Lit(")"), Ws0, Lit(":"), Star1, Star1, Ws0, Cap(<<Digits>>), Ws1>>
          \o Devices,
          TRUE, "count", "device", "int", "connected"),
  \* /\*?\*?(?:offline|disconnected|inactive)\s*\([^)]*\)\s*:\*?\*?\s*(\d+)\s+devices?/gi
  Pattern(<<Star1, Star1, Word(<<"offline", "disconnected", "inactive">>),
            Ws0, Lit("("), Cls("[^)]", 0, TRUE),
            Lit(")"), Ws0, Lit(":"), Star1, Star1, Ws0, Cap(<<Digits>>), Ws1>>
          \o Devices,
          TRUE, "count", "device", "int", "disconnected"),
  \* /(?:connected|online|active)\s+devices?:\s*(\d+)/gi
  Pattern(<<Word(<<"connected", "online", "active">>),
            Ws1>> \o Devices \o <<Lit(":"), Ws0, Cap(<<Digits>>)>>,
          TRUE, "count", "device", "int", "connected"),
  \* /(?:disconnected|offline|inactive)\s+devices?:\s*(\d+)/gi
  Pattern(<<Word(<<"disconnected", "offline", "inactive">>),
            Ws1>> \o Devices \o <<Lit(":"), Ws0, Cap(<<Digits>>)>>,
          TRUE, "count", "device", "int", "disconnected"),
  \* /(\d+)\s+(?:connected|online|active)\s+devices?/gi
  Pattern(<<Cap(<<Digits>>), Ws1, Word(<<"connected", "online", "active">>),
            Ws1>> \o Devices,
          TRUE, "count", "device", "int", "connected"),
  \* /(\d+)\s+(?:disconnected|offline|inactive)\s+devices?/gi
  Pattern(<<Cap(<<Digits>>), Ws1, Word(<<"disconnected", "offline", "inactive">>),
            Ws1>> \o Devices,
          TRUE, "count", "device", "int", "disconnected"),
  \* /never\s+connected\s*:\s*(\d+)\s+devices?/gi
  Pattern(<<Lit("never"), Ws1, Lit("connected"), Ws0, Lit(":"), Ws0,
            Cap(<<Digits>>), Ws1>> \o Devices,
          TRUE, "count", "device", "int", "never_connected"),
  \* /\*?\*?total\s+devices?\s*:\*?\*?\s*(\d+)/gi
  Pattern(<<Star1, Star1, Lit("total"), Ws1>> \o Devices
          \o <<Ws0, Lit(":"), Star1, Star1, Ws0, Cap(<<Digits>>)>>,
          TRUE, "count", "device", "int", "total"),
  \* /(\d+(?:\.\d+)?)\s*%/g
  Pattern(<<Cap(Decimal), Ws0, Lit("%")>>,
          FALSE, "percentage", "other", "float", undefined),
  \* /uptime:\s*(\d+(?:\.\d+)?)\s*%/gi
  Pattern(<<Lit("uptime:"), Ws0, Cap(Decimal), Ws0, Lit("%")>>,
          TRUE, "percentage", "device", "float", "uptime"),
  \* /(\d+(?:\.\d+)?)\s*%\s+uptime/gi
  Pattern(<<Cap(Decimal), Ws0, Lit("%"), Ws1, Lit("uptime")>>,
          TRUE, "percentage", "device", "float", "uptime"),
  \* /(\d+)\s+streams?/gi
  Pattern(<<Cap(<<Digits>>), Ws1, Lit("stream"), Opt(<<Lit("s")>>)>>,
          TRUE, "count", "stream", "int", undefined),
  \* /(\d+)\s+alerts?/gi
  Pattern(<<Cap(<<Digits>>), Ws1, Lit("alert"), Opt(<<Lit("s")>>)>>,
          TRUE, "count", "alert", "int", undefined),
  \* /average:\s*(\d+(?:\.\d+)?)/gi
  Pattern(<<Lit("average:"), Ws0, Cap(Decimal)>>,
          TRUE, "average", "other", "float", undefined),
  \* /total:\s*(\d+(?:,\d{3})*(?:\.\d+)?)/gi
  Pattern(<<Lit("total:"), Ws0,
            Cap(<<Digits, Star(<<Lit(","), One("d"), One("d"), One("d")>>),
                  Opt(<<Lit("."), Digits>>)>>)>>,
          TRUE, "sum", "other", "commas", undefined)
>>

\* pattern.extractValue(match)
ExtractValue(kind, m1) ==
  CASE kind = "int" -> ParseInt(m1)
    [] kind = "float" -> ParseFloat(m1)
    [] kind = "commas" -> ParseFloat(RemoveCommas(m1))

\* a claim whose span ends after the length of the captured numeral
ClaimOf_CaptureSpan(pattern, m) ==
  [type |-> pattern.claimType,
   entity |-> pattern.entityType,
   value |-> ExtractValue(pattern.value, m.m1),
   startIndex |-> m.index,
   endIndex |-> m.index + Len(m.m1),
   rawText |-> m.m0,
   filter |-> pattern.filter]

\* the NumericClaim built from one match of one pattern
\* (context and lineNumber, which nothing reads, are left out)
ClaimOf(pattern, m) ==
  [type |-> pattern.claimType,
   entity |-> pattern.entityType,
   value |-> ExtractValue(pattern.value, m.m1),
   startIndex |-> m.index,
   endIndex |-> m.index + Len(m.m0),
   rawText |-> m.m0,
   filter |-> pattern.filter]

PatternClaims(pattern, text) ==
  LET Claims(ms) == [i \in 1..Len(ms) |-> ClaimOf(pattern, ms[i])]
  IN Claims(ExecAll(pattern.regex, text, pattern.ci, 0))

\* ResponseParser.extractClaims
extractClaims(text) ==
  LET all == Flatten([p \in 1..Len(CLAIM_PATTERNS) |->
                        PatternClaims(CLAIM_PATTERNS[p], text)])
  IN Values(SortByKey([i \in 1..Len(all) |->
                         [k |-> all[i].startIndex, v |-> all[i]]]))

ItemTail == <<Ws1, Cap(<<Cls(".", 1, FALSE)>>),
              Opt(<<Ws0, Lit("("), Cls(".", 0, FALSE), Lit(")")>>), Eol>>

\* LIST_PATTERNS.numbered: /^\s*\d+\.\s+(.+?)(?:\s*\(.*?\))?$/gm
LIST_numbered == <<Bol, Ws0, Digits, Lit(".")>> \o ItemTail

\* LIST_PATTERNS.bullet: /^\s*[-*]\s+(.+?)(?:\s*\(.*?\))?$/gm
LIST_bullet == <<Bol, Ws0, One("[-*]")>> \o ItemTail

\* LIST_PATTERNS.listHeader:
\* /^(?:currently\s+)?(?:online|connected|disconnected|offline|active)\s+devices?:?\s*$/gim
LIST_listHeader ==
  <<Bol, Opt(<<Lit("currently"), Ws1>>),
    Word(<<"online", "connected", "disconnected", "offline", "active">>), Ws1>>
  \o Devices \o <<Opt(<<Lit(":")>>), Ws0, Eol>>

\* the largest distance between two consecutive items of one list
ItemGap == 200

\* the distance within which a claim and a list belong together
ProximityWindow == 500

\* ResponseParser.detectEntityTypeFromHeader
detectEntityTypeFromHeader(headerText) ==
  LET lower == ToLowerCase(headerText)
  IN CASE Includes(lower, "device") -> "device"
       [] Includes(lower, "stream") -> "stream"
       [] Includes(lower, "alert") -> "alert"
       [] Includes(lower, "group") -> "group"
       [] Includes(lower, "job") -> "job"
       [] OTHER -> "other"

\* the loop of extractListItemsAfterHeader over the selected items: an item
\* is kept while it starts less than ItemGap after the previous one
RECURSIVE ConsecutiveItems(_, _)
ConsecutiveItems(selected, lastIndex) ==
  IF selected = <<>> THEN <<>>
  ELSE IF lastIndex = -1 \/ Head(selected).index - lastIndex < ItemGap
  THEN <<Trim(Head(selected).m1)>>
       \o ConsecutiveItems(Tail(selected), Head(selected).index)
  ELSE <<>>

\* ResponseParser.extractListItemsAfterHeader
extractListItemsAfterHeader(text, startIndex) ==
  LET textAfterHeader == SubstringFrom(text, startIndex)
      Selected(numberedItems, bulletItems) ==
        IF Len(numberedItems) >= Len(bulletItems)
        THEN numberedItems ELSE bulletItems
  IN ConsecutiveItems(
       Selected(ExecAll(LIST_numbered, textAfterHeader, FALSE, 0),
                ExecAll(LIST_bullet, textAfterHeader, FALSE, 0)),
       -1)

\* ResponseParser.calculateListLength
calculateListLength(items, text, startIndex) ==
  IF Len(items) = 0 THEN 0
  ELSE LET lastItem == items[Len(items)]
           lastItemIndex == IndexOf(text, lastItem, startIndex)
       IN IF lastItemIndex # -1
          THEN (lastItemIndex - startIndex) + Len(lastItem)
          ELSE 0

\* the ExtractedList under one header match, <<>> when it has no item
ListOf(text, headerMatch) ==
  LET headerText == headerMatch.m0
      headerIndex == headerMatch.index
      List(items) ==
        IF Len(items) > 0
        THEN <<[type |-> detectEntityTypeFromHeader(headerText),
                items |-> items,
                itemCount |-> Len(items),
                startIndex |-> headerIndex,
                endIndex |-> headerIndex + Len(headerText)
                             + calculateListLength(items, text, headerIndex),
                headerText |-> headerText]>>
        ELSE <<>>
  IN List(extractListItemsAfterHeader(text, headerIndex + Len(headerText)))

\* ResponseParser.extractLists
extractLists(text) ==
  LET Lists(hs) == Flatten([i \in 1..Len(hs) |-> ListOf(text, hs[i])])
  IN Lists(ExecAll(LIST_listHeader, text, TRUE, 0))

\* ResponseParser.parse
parse(text) ==
  [originalText |-> text,
   claims |-> extractClaims(text),
   lists |-> extractLists(text)]

\* ResponseParser.findRelatedClaim: <<claim>> or <<>> for undefined
RECURSIVE findRelatedClaim(_, _)
findRelatedClaim(list, claims) ==
  IF claims = <<>> THEN <<>>
  ELSE LET claim == Head(claims)
       IN IF /\ claim.entity = list.type
             /\ claim.type = "count"
             /\ Abs(claim.startIndex - list.startIndex) < ProximityWindow
          THEN <<claim>>
          ELSE findRelatedClaim(list, Tail(claims))

\* the mismatch detectCountListMismatches records for one list, if any
MismatchOf(list, claims) ==
  LET related == findRelatedClaim(list, claims)
  IN IF related # <<>> /\ related[1].value # Cents(list.itemCount)
     THEN <<[claim |-> related[1], list |-> list,
             claimedCount |-> related[1].value,
             actualCount |-> list.itemCount]>>
     ELSE <<>>

\* ResponseParser.detectCountListMismatches
detectCountListMismatches(p) ==
  Flatten([i \in 1..Len(p.lists) |-> MismatchOf(p.lists[i], p.claims)])

(***************************************************************************)
(* JSON values and tool results.  The content of a tool result is the      *)
(* document its JSON text denotes, or NotJson for text JSON.parse rejects.  *)
(* A nullable number is <<>> (null) or <<n>>.                              *)
(***************************************************************************)
JNum(n) == [k |-> "num", num |-> n]
JStr(s) == [k |-> "str", str |-> s]
JArr(s) == [k |-> "arr", items |-> s]
JObj(r) == [k |-> "obj", fields |-> r]
JNull == [k |-> "null"]
JUndefined == [k |-> "undefined"]
NotJson == [k |-> "text"]

\* the TypeError raised by reading a property of null, in place of the
\* value the throwing call would have returned
TypeError == [threw |-> "TypeError"]
Threw(x) == "threw" \in DOMAIN x

\* JavaScript truthiness
Truthy(j) ==
  CASE j.k \in {"null", "undefined"} -> FALSE
    [] j.k = "num" -> j.num # 0
    [] j.k = "str" -> j.str # ""
    [] OTHER -> TRUE

\* j.f and j?.f on a value that is not null or undefined
Get(j, f) ==
  IF j.k = "obj" /\ f \in DOMAIN j.fields THEN j.fields[f] ELSE JUndefined

\* a || b
OrElse(a, b) == IF Truthy(a) THEN a ELSE b

IsArray(j) == j.k = "arr"

ToolResult(id, toolName, content, is_error) ==
  [tool_use_id |-> id, toolName |-> toolName, content |-> content,
   is_error |-> is_error, parsedContent |-> JUndefined]

\* a parse that does not look at is_error
parseToolContent_ParseErrors(toolResult) ==
  IF Truthy(toolResult.parsedContent) THEN toolResult.parsedContent
  ELSE IF toolResult.content.k = "text" THEN JNull
  ELSE toolResult.content

\* MathValidator.parseToolContent: the parsed document, JNull when the record
\* is an error result or its content is not JSON
parseToolContent(toolResult) ==
  IF Truthy(toolResult.parsedContent) THEN toolResult.parsedContent
  ELSE IF toolResult.is_error THEN JNull
  ELSE IF toolResult.content.k = "text" THEN JNull
  ELSE toolResult.content

\* the record as parseToolContent leaves it: a successful parse is cached
parseToolContentCache(toolResult) ==
  IF \/ Truthy(toolResult.parsedContent)
     \/ toolResult.is_error
     \/ toolResult.content.k = "text"
  THEN toolResult
  ELSE [toolResult EXCEPT !.parsedContent = toolResult.content]

ByTool(trs, name) ==
  FilterFlags(trs, [i \in 1..Len(trs) |-> trs[i].toolName = name])

Reverse(s) == [i \in 1..Len(s) |-> s[Len(s) + 1 - i]]

\* the test of one list_devices result against the claim's filter: the
\* loop body returns the tool, continues, or throws on a null first item
ToolMatchesFilter(data, filter) ==
  LET query == Get(data, "query")
      list == Get(data, "list")
  IN IF /\ query.k = "str" /\ query.str # ""
        /\ \/ Includes(ToLowerCase(query.str),
                       "connection_status=\"" \o filter \o "\"")
           \/ Includes(ToLowerCase(query.str),
                       "connection_status='" \o filter \o "'")
     THEN "return"
     ELSE IF IsArray(list) /\ Len(list.items) > 0
     THEN (IF list.items[1].k = "null" THEN "throw"
           ELSE IF Get(list.items[1], "connection_status") = JStr(filter)
           THEN "return" ELSE "continue")
     ELSE "continue"

\* the loop of findRelevantDeviceTool: <<tool>>, <<TypeError>>, or <<>>
\* when the loop ends without a match
RECURSIVE FirstMatchingTool(_, _)
FirstMatchingTool(tools, filter) ==
  LET Body(test) ==
        CASE test = "return" -> <<Head(tools)>>
          [] test = "throw" -> <<TypeError>>
          [] test = "continue" -> FirstMatchingTool(Tail(tools), filter)
      Loop(data) ==
        Body(IF Truthy(data) THEN ToolMatchesFilter(data, filter)
             ELSE "continue")
  IN IF tools = <<>> THEN <<>> ELSE Loop(parseToolContent(Head(tools)))

\* MathValidator.findRelevantDeviceTool on a non-empty array: the tool, or
\* TypeError.  reverse() reverses deviceTools in place, so the fallback
\* reads the reversed array.
findRelevantDeviceTool(deviceTools, filter) ==
  IF filter = undefined \/ filter = ""
  THEN deviceTools[Len(deviceTools)]
  ELSE LET reversed == Reverse(deviceTools)
           found == FirstMatchingTool(reversed, filter)
       IN IF found # <<>> THEN found[1] ELSE reversed[Len(reversed)]

HasFilter(claim) == claim.filter # undefined /\ claim.filter # ""

GroundTruth(source, toolUseId, path, rawData) ==
  [source |-> source, toolUseId |-> toolUseId, path |-> path,
   rawData |-> rawData]

\* some item of the array is null
HasNull(list) == \E i \in 1..Len(list) : list[i].k = "null"

\* items of data.list whose connection_status is the filter
RECURSIVE FilterStatus(_, _)
FilterStatus(list, filter) ==
  IF list = <<>> THEN <<>>
  ELSE (IF Get(Head(list), "connection_status") = JStr(filter)
        THEN <<Head(list)>> ELSE <<>>)
       \o FilterStatus(Tail(list), filter)

\* strategy device_count_from_list_devices: <<groundTruth>>, <<>> for
\* null, or <<TypeError>> when the filter reads an item that is null
device_count_from_list_devices(claim, trs) ==
  LET Truth(relevantTool, data) ==
        IF ~Truthy(data) \/ ~IsArray(Get(data, "list")) THEN <<>>
        ELSE IF HasFilter(claim) /\ claim.filter # "total"
        THEN (IF HasNull(Get(data, "list").items) THEN <<TypeError>>
              ELSE <<GroundTruth("list_devices", relevantTool.tool_use_id,
                       "list.filter(connection_status=\"" \o claim.filter
                       \o "\").length",
                       JArr(FilterStatus(Get(data, "list").items,
                                         claim.filter)))>>)
        ELSE <<GroundTruth("list_devices", relevantTool.tool_use_id,
                 IF HasFilter(claim)
                 THEN "list.filter(connection_status=\"" \o claim.filter
                      \o "\").length"
                 ELSE "list.length",
                 Get(data, "list"))>>
      From(relevantTool) ==
        IF Threw(relevantTool) THEN <<TypeError>>
        ELSE Truth(relevantTool, parseToolContent(relevantTool))
      Among(deviceTools) ==
        IF Len(deviceTools) = 0 THEN <<>>
        ELSE From(findRelevantDeviceTool(deviceTools, claim.filter))
  IN IF claim.entity # "device" THEN <<>>
     ELSE Among(ByTool(trs, "list_devices"))

\* data.<category>?.count
CategoryCount(data, category) ==
  LET c == Get(data, category)
  IN IF c.k \in {"null", "undefined"} THEN JUndefined ELSE Get(c, "count")

\* strategy device_count_from_connection_report
device_count_from_connection_report(claim, trs) ==
  IF claim.entity # "device" THEN <<>>
  ELSE
    LET reports == ByTool(trs, "get_connection_report")
    IN IF reports = <<>> THEN <<>>
       ELSE
         LET reportTool == reports[1]
             data == parseToolContent(reportTool)
             valueMissing ==
               CASE claim.filter \in {"connected", "disconnected",
                                      "never_connected"} ->
                      ~Truthy(CategoryCount(data, claim.filter))
                 \* (a || 0) + (b || 0) + (c || 0) is 0 only when all
                 \* three are falsy
                 [] claim.filter = "total" \/ ~HasFilter(claim) ->
                      /\ ~Truthy(CategoryCount(data, "connected"))
                      /\ ~Truthy(CategoryCount(data, "disconnected"))
                      /\ ~Truthy(CategoryCount(data, "never_connected"))
                 [] OTHER -> TRUE
         IN IF ~Truthy(data) THEN <<>>
            ELSE IF valueMissing THEN <<>>
            ELSE <<GroundTruth("get_connection_report",
                     reportTool.tool_use_id,
                     IF HasFilter(claim) THEN claim.filter \o ".count"
                     ELSE "total",
                     data)>>

\* strategy uptime_from_availability_report
uptime_from_availability_report(claim, trs) ==
  IF claim.filter # "uptime" THEN <<>>
  ELSE
    LET reports == ByTool(trs, "get_device_availability_report")
    IN IF reports = <<>> THEN <<>>
       ELSE
         LET reportTool == reports[1]
             data == parseToolContent(reportTool)
         IN IF ~Truthy(data) THEN <<>>
            ELSE IF ~Truthy(OrElse(Get(data, "uptime_percent"),
                                   Get(data, "availability_percent")))
            THEN <<>>
            ELSE <<GroundTruth("get_device_availability_report",
                     reportTool.tool_use_id, "uptime_percent", data)>>

\* strategy stream_aggregation_from_rollups; the average or sum it computes
\* reads item.value of every item and is then dropped
stream_aggregation_from_rollups(claim, trs) ==
  IF claim.entity # "stream" THEN <<>>
  ELSE
    LET rollups == ByTool(trs, "get_stream_rollups")
    IN IF rollups = <<>> THEN <<>>
       ELSE
         LET rollupTool == rollups[1]
             data == parseToolContent(rollupTool)
         IN IF ~Truthy(data) \/ ~IsArray(Get(data, "list")) THEN <<>>
            ELSE IF claim.type \notin {"average", "sum"} THEN <<>>
            ELSE IF HasNull(Get(data, "list").items) THEN <<TypeError>>
            ELSE <<GroundTruth("get_stream_rollups", rollupTool.tool_use_id,
                     "list[]." \o claim.type, Get(data, "list"))>>

\* strategy alert_count_from_list_alerts
alert_count_from_list_alerts(claim, trs) ==
  IF claim.entity # "alert" THEN <<>>
  ELSE
    LET alerts == ByTool(trs, "list_alerts")
    IN IF alerts = <<>> THEN <<>>
       ELSE
         LET alertTool == alerts[1]
             data == parseToolContent(alertTool)
         IN IF ~Truthy(data) \/ ~IsArray(Get(data, "list")) THEN <<>>
            ELSE <<GroundTruth("list_alerts", alertTool.tool_use_id,
                     "list.length", Get(data, "list"))>>

Strategy(name, applicableTools, applicableClaimTypes, priority) ==
  [name |-> name, applicableTools |-> applicableTools,
   applicableClaimTypes |-> applicableClaimTypes, priority |-> priority]

\* MathValidator.initializeStrategies
strategies == <<
  Strategy("device_count_from_list_devices", {"list_devices"}, {"count"}, 10),
  Strategy("device_count_from_connection_report", {"get_connection_report"},
           {"count", "percentage"}, 9),
  Strategy("uptime_from_availability_report",
           {"get_device_availability_report"}, {"percentage"}, 10),
  Strategy("stream_aggregation_from_rollups", {"get_stream_rollups"},
           {"average", "sum"}, 8),
  Strategy("alert_count_from_list_alerts", {"list_alerts"}, {"count"}, 9)
>>

\* strategy.extract(claim, toolResults)
Extract(name, claim, trs) ==
  CASE name = "device_count_from_list_devices" ->
         device_count_from_list_devices(claim, trs)
    [] name = "device_count_from_connection_report" ->
         device_count_from_connection_report(claim, trs)
    [] name = "uptime_from_availability_report" ->
         uptime_from_availability_report(claim, trs)
    [] name = "stream_aggregation_from_rollups" ->
         stream_aggregation_from_rollups(claim, trs)
    [] name = "alert_count_from_list_alerts" ->
         alert_count_from_list_alerts(claim, trs)

\* s.split('.')
RECURSIVE SplitDots(_, _)
SplitDots(s, part) ==
  IF s = "" THEN <<part>>
  ELSE IF Head(s) = "." THEN <<part>> \o SplitDots(Tail(s), "")
  ELSE SplitDots(Tail(s), part \o Head(s))

\* the path walk of extractValueFromGroundTruth: the value reached, or
\* JUndefined where the code returns null
RECURSIVE WalkPath(_, _)
WalkPath(value, parts) ==
  IF parts = <<>> THEN value
  ELSE IF Head(parts) = "length" /\ IsArray(value)
  THEN WalkPath(JNum(Cents(Len(value.items))), Tail(parts))
  ELSE IF value.k = "obj" /\ Head(parts) \in DOMAIN value.fields
  THEN WalkPath(value.fields[Head(parts)], Tail(parts))
  ELSE JUndefined

\* MathValidator.extractValueFromGroundTruth: <<n>> or <<>> for null
extractValueFromGroundTruth(groundTruth) ==
  LET rawData == groundTruth.rawData
  IN IF IsArray(rawData) THEN <<Cents(Len(rawData.items))>>
     ELSE IF rawData.k = "num" THEN <<rawData.num>>
     ELSE IF rawData.k = "obj"
     THEN LET value == WalkPath(rawData, SplitDots(groundTruth.path, ""))
          IN IF value.k = "num" THEN <<value.num>> ELSE <<>>
     ELSE <<>>

\* a configuration without percentage tolerance
DEFAULT_CONFIG_Exact ==
  [countTolerance |-> 0, percentageTolerance |-> 0, autoCorrect |-> TRUE]

\* DEFAULT_CONFIG: countTolerance 0, percentageTolerance 0.1, autoCorrect
\* true (strictMode, blockOnCritical and priorityWeights are read nowhere
\* and carry no behaviour)
DEFAULT_CONFIG ==
  [countTolerance |-> 0, percentageTolerance |-> 10, autoCorrect |-> TRUE]

\* errorPercent = error / actualValue * 100 as the fraction n / d, d > 0
ErrorPercent(error, actualValue) ==
  IF actualValue # 0 THEN [n |-> error * 100, d |-> actualValue]
  ELSE [n |-> 0, d |-> 1]

\* errorPercent > k for a whole number k
PercentAbove(errorPercent, k) == errorPercent.n > k * errorPercent.d

\* a tolerance test with strict comparisons
isWithinTolerance_Strict(config, claimType, error, errorPercent) ==
  IF claimType = "count" THEN error < config.countTolerance
  ELSE IF claimType = "percentage" THEN error < config.percentageTolerance
  ELSE errorPercent.n * 100 < config.percentageTolerance * errorPercent.d

\* MathValidator.isWithinTolerance
isWithinTolerance(config, claimType, error, errorPercent) ==
  IF claimType = "count" THEN error <= config.countTolerance
  ELSE IF claimType = "percentage" THEN error <= config.percentageTolerance
  ELSE errorPercent.n * 100 <= config.percentageTolerance * errorPercent.d

\* a severity that grades device counts by their error percentage, as it
\* grades every other count
calculateSeverity_ByPercent(claim, error, errorPercent) ==
  IF \/ claim.filter = "uptime"
     \/ (claim.type = "percentage" /\ PercentAbove(errorPercent, 5))
  THEN "major"
  ELSE IF claim.type = "count" /\ PercentAbove(errorPercent, 10)
  THEN "major"
  ELSE IF PercentAbove(errorPercent, 1) THEN "minor"
  ELSE "none"

\* MathValidator.calculateSeverity
calculateSeverity(claim, error, errorPercent) ==
  IF claim.entity = "device" /\ claim.type = "count" /\ error > 0
  THEN "critical"
  ELSE IF \/ claim.filter = "uptime"
          \/ (claim.type = "percentage" /\ PercentAbove(errorPercent, 5))
  THEN "major"
  ELSE IF claim.type = "count" /\ PercentAbove(errorPercent, 10)
  THEN "major"
  ELSE IF PercentAbove(errorPercent, 1) THEN "minor"
  ELSE "none"

\* the applicable strategies, least priority first
ApplicableStrategies_Ascending(claim, trs) ==
  LET keep == [i \in 1..Len(strategies) |->
                 /\ claim.type \in strategies[i].applicableClaimTypes
                 /\ \E j \in 1..Len(trs) :
                      trs[j].toolName \in strategies[i].applicableTools]
      app == FilterFlags(strategies, keep)
  IN Values(SortByKey([i \in 1..Len(app) |->
                         [k |-> app[i].priority, v |-> app[i]]]))

\* the applicable strategies of validate, by descending priority
ApplicableStrategies(claim, trs) ==
  LET keep == [i \in 1..Len(strategies) |->
                 /\ claim.type \in strategies[i].applicableClaimTypes
                 /\ \E j \in 1..Len(trs) :
                      trs[j].toolName \in strategies[i].applicableTools]
      app == FilterFlags(strategies, keep)
  IN Values(SortByKey([i \in 1..Len(app) |->
                         [k |-> 0 - app[i].priority, v |-> app[i]]]))

\* the loop of validate over the applicable strategies: the first ground
\* truth, <<>> when every strategy returns null
RECURSIVE FirstGroundTruth(_, _, _)
FirstGroundTruth(ss, claim, trs) ==
  LET OrNext(gt) ==
        IF gt # <<>> THEN gt ELSE FirstGroundTruth(Tail(ss), claim, trs)
  IN IF ss = <<>> THEN <<>> ELSE OrNext(Extract(Head(ss).name, claim, trs))

\* an unverifiable claim reported as a failure
Unverifiable_Flagged(claim) ==
  [claim |-> claim, isValid |-> FALSE, actualValue |-> <<>>,
   claimedValue |-> claim.value, error |-> <<>>, errorPercent |-> <<>>,
   severity |-> "none", groundTruth |-> <<>>,
   validationMethod |-> "no_ground_truth_available"]

\* the ValidationResult of validate when no ground truth was found
Unverifiable(claim) ==
  [claim |-> claim, isValid |-> TRUE, actualValue |-> <<>>,
   claimedValue |-> claim.value, error |-> <<>>, errorPercent |-> <<>>,
   severity |-> "none", groundTruth |-> <<>>,
   validationMethod |-> "no_ground_truth_available"]

\* MathValidator.validate: the ValidationResult, or TypeError when a
\* strategy throws
validate(config, claim, trs) ==
  LET Result(groundTruth, actualValue) ==
        IF groundTruth = <<>> \/ actualValue = <<>>
        THEN Unverifiable(claim)
        ELSE
          LET error == Abs(claim.value - actualValue[1])
              errorPercent == ErrorPercent(error, actualValue[1])
          IN [claim |-> claim,
              isValid |-> isWithinTolerance(config, claim.type, error,
                                            errorPercent),
              actualValue |-> actualValue,
              claimedValue |-> claim.value,
              error |-> <<error>>,
              errorPercent |-> <<errorPercent>>,
              severity |-> calculateSeverity(claim, error, errorPercent),
              groundTruth |-> groundTruth,
              validationMethod |->
                "validated_against_" \o groundTruth[1].source]
      Against(groundTruth) ==
        IF groundTruth # <<>> /\ Threw(groundTruth[1]) THEN TypeError
        ELSE Result(groundTruth,
                    IF groundTruth = <<>> THEN <<>>
                    ELSE extractValueFromGroundTruth(groundTruth[1]))
  IN Against(FirstGroundTruth(ApplicableStrategies(claim, trs), claim, trs))

\* the tool_use_ids of the records findRelevantDeviceTool parses: the
\* reversed results up to the first that matches the filter
RECURSIVE ParsedUntilMatch(_, _)
ParsedUntilMatch(tools, filter) ==
  IF tools = <<>> THEN {}
  ELSE LET data == parseToolContent(Head(tools))
       IN IF Truthy(data) /\ ToolMatchesFilter(data, filter) # "continue"
          THEN {Head(tools).tool_use_id}
          ELSE {Head(tools).tool_use_id} \cup ParsedUntilMatch(Tail(tools), filter)

\* the tool_use_ids of the records one strategy hands to parseToolContent
ParsedBy(name, claim, trs) ==
  LET first(toolName) ==
        IF ByTool(trs, toolName) = <<>> THEN {}
        ELSE {ByTool(trs, toolName)[1].tool_use_id}
  IN CASE name = "device_count_from_list_devices" ->
            IF claim.entity # "device" \/ ByTool(trs, "list_devices") = <<>>
            THEN {}
            ELSE (IF HasFilter(claim)
                  THEN ParsedUntilMatch(Reverse(ByTool(trs, "list_devices")),
                                        claim.filter)
                  ELSE {})
                 \cup {r.tool_use_id :
                         r \in {t \in {findRelevantDeviceTool(
                                          ByTool(trs, "list_devices"),
                                          claim.filter)} : ~Threw(t)}}
       [] name = "device_count_from_connection_report" ->
            IF claim.entity # "device" THEN {}
            ELSE first("get_connection_report")
       [] name = "uptime_from_availability_report" ->
            IF claim.filter # "uptime" THEN {}
            ELSE first("get_device_availability_report")
       [] name = "stream_aggregation_from_rollups" ->
            IF claim.entity # "stream" THEN {} ELSE first("get_stream_rollups")
       [] name = "alert_count_from_list_alerts" ->
            IF claim.entity # "alert" THEN {} ELSE first("list_alerts")

\* the records parsed while validate tries the strategies in turn
RECURSIVE ParsedByStrategies(_, _, _)
ParsedByStrategies(ss, claim, trs) ==
  IF ss = <<>> THEN {}
  ELSE ParsedBy(Head(ss).name, claim, trs)
       \cup (IF Extract(Head(ss).name, claim, trs) # <<>> THEN {}
             ELSE ParsedByStrategies(Tail(ss), claim, trs))

\* the tool results after validateAll: every record a strategy parsed
\* carries its parsed content
CacheAfterValidateAll(claims, trs, records) ==
  LET ids == UNION {ParsedByStrategies(ApplicableStrategies(claims[i], trs),
                                       claims[i], trs) : i \in 1..Len(claims)}
  IN [i \in 1..Len(records) |->
        IF records[i].tool_use_id \in ids
        THEN parseToolContentCache(records[i]) ELSE records[i]]

\* the number of JSON.parse calls validateAll makes on the record trs[j].
\* A call of parseToolContent is identified by the claim, the position of
\* the strategy among the applicable ones, and the place of the call: the
\* loop of findRelevantDeviceTool ("select") or the strategy itself
\* ("read").  A call reaches JSON.parse unless the record is an error result
\* or carries a truthy parsedContent, which only a parse that succeeded with
\* a truthy document leaves behind.
JsonParseCalls(claims, trs, j) ==
  LET id == trs[j].tool_use_id
      Listing(claim) ==
        /\ claim.entity = "device"
        /\ ByTool(trs, "list_devices") # <<>>
      Selects(claim) ==
        /\ Listing(claim) /\ HasFilter(claim)
        /\ id \in ParsedUntilMatch(Reverse(ByTool(trs, "list_devices")),
                                   claim.filter)
      Reads(name, claim) ==
        IF name = "device_count_from_list_devices"
        THEN /\ Listing(claim)
             /\ \E t \in {findRelevantDeviceTool(ByTool(trs, "list_devices"),
                                                  claim.filter)} :
                  ~Threw(t) /\ t.tool_use_id = id
        ELSE id \in ParsedBy(name, claim, trs)
      Tried(app, claim, s) ==
        \A t \in 1..(s - 1) : Extract(app[t].name, claim, trs) = <<>>
      CallsOf(app, claim, i) ==
        {c \in {i} \X (1..Len(app)) \X {"select", "read"} :
           /\ Tried(app, claim, c[2])
           /\ IF c[3] = "select"
              THEN /\ app[c[2]].name = "device_count_from_list_devices"
                   /\ Selects(claim)
              ELSE Reads(app[c[2]].name, claim)}
      calls ==
        Cardinality(UNION {CallsOf(ApplicableStrategies(claims[i], trs),
                                   claims[i], i) : i \in 1..Len(claims)})
  IN IF trs[j].is_error THEN 0
     ELSE IF trs[j].content.k # "text" /\ Truthy(trs[j].content)
     THEN Min(1, calls)
     ELSE calls

\* MathValidator.validateAll
validateAll(config, claims, trs) ==
  [i \in 1..Len(claims) |-> validate(config, claims[i], trs)]

(***************************************************************************)
(* ResponseCorrector                                                       *)
(***************************************************************************)
\* ResponseCorrector.severityWeight
severityWeight(severity) ==
  CASE severity = "critical" -> 4
    [] severity = "major" -> 3
    [] severity = "minor" -> 2
    [] severity = "none" -> 1

\* a maximum that looks for 'major' before 'critical'
getMaxSeverity_MajorFirst(corrections) ==
  LET severities == {corrections[i].severity : i \in 1..Len(corrections)}
  IN IF Len(corrections) = 0 THEN "none"
     ELSE IF "major" \in severities THEN "major"
     ELSE IF "critical" \in severities THEN "critical"
     ELSE IF "minor" \in severities THEN "minor"
     ELSE "none"

\* ResponseCorrector.getMaxSeverity
getMaxSeverity(corrections) ==
  LET severities == {corrections[i].severity : i \in 1..Len(corrections)}
  IN IF Len(corrections) = 0 THEN "none"
     ELSE IF "critical" \in severities THEN "critical"
     ELSE IF "major" \in severities THEN "major"
     ELSE IF "minor" \in severities THEN "minor"
     ELSE "none"

Correction(type, start, end, original, corrected, severity, relatedClaim, relatedList) ==
  [type |-> type, location |-> [start |-> start, end |-> end],
   original |-> original, corrected |-> corrected, severity |-> severity,
   relatedClaim |-> relatedClaim, relatedList |-> relatedList]

\* a JSON string or number inside a template literal
Render(j) == IF j.k = "num" THEN NumToString(j.num) ELSE j.str

\* one line of the regenerated list (index is 0-based).  The date of
\* dpLastConnectTime / last_connect is rendered by the host's locale code,
\* which is outside the model: the stored value stands for it.
DeviceLine(device, index) ==
  LET name == OrElse(OrElse(OrElse(Get(device, "name"),
                                   Get(device, "devConnectwareId")),
                            Get(device, "id")),
                     JStr("Device " \o ToString(index + 1)))
      type == OrElse(OrElse(Get(device, "dpDeviceType"),
                            Get(device, "device_type")), JStr(""))
      lastConnect == OrElse(OrElse(Get(device, "dpLastConnectTime"),
                                   Get(device, "last_connect")), JStr(""))
  IN ToString(index + 1) \o ". " \o Render(name)
     \o (IF Truthy(type) THEN " (" \o Render(type) \o ")" ELSE "")
     \o (IF Truthy(lastConnect)
         THEN " - Last connected: " \o Render(lastConnect) ELSE "")

\* lines.join('\n')
RECURSIVE JoinLines(_)
JoinLines(lines) ==
  IF lines = <<>> THEN ""
  ELSE IF Len(lines) = 1 THEN lines[1]
  ELSE lines[1] \o "\n" \o JoinLines(Tail(lines))

\* ResponseCorrector.fixDeviceList: <<correction>>, <<>> for null, or
\* <<TypeError>> when a device to format is null
fixDeviceList(list, correctCount, validation) ==
  IF validation.groundTruth = <<>> THEN <<>>
  ELSE
    LET deviceData == validation.groundTruth[1].rawData
    IN IF ~IsArray(deviceData) THEN <<>>
       ELSE
         LET correctDevices ==
               SubSeq(deviceData.items, 1,
                      Min(Len(deviceData.items), Max(0, correctCount \div 100)))
             formattedList ==
               JoinLines([i \in 1..Len(correctDevices) |->
                            DeviceLine(correctDevices[i], i - 1)])
         IN IF HasNull(correctDevices) THEN <<TypeError>>
            ELSE
            <<Correction("regenerate",
                         list.startIndex + Len(list.headerText),
                         list.endIndex,
                         "Listed " \o ToString(list.itemCount) \o " devices",
                         "\n" \o formattedList,
                         "critical", <<>>, <<list>>)>>

\* parsed.lists.find(list => list.type === 'device' && |distance| < 500)
RECURSIVE FindRelatedList(_, _)
FindRelatedList(lists, claim) ==
  IF lists = <<>> THEN <<>>
  ELSE IF /\ Head(lists).type = "device"
          /\ Abs(Head(lists).startIndex - claim.startIndex) < ProximityWindow
  THEN <<Head(lists)>>
  ELSE FindRelatedList(Tail(lists), claim)

\* the replacement of a claim's numeral by the actual value
ReplaceNumeral(claim, actualValue) ==
  Replace(claim.rawText, NumToString(claim.value), NumToString(actualValue))

\* the corrections fixDeviceCountMismatches emits for one failure
DeviceCountCorrections(p, failure) ==
  IF failure.actualValue = <<>> THEN <<>>
  ELSE
    LET claim == failure.claim
        actualValue == failure.actualValue[1]
        countCorrection ==
          Correction("replace", claim.startIndex, claim.endIndex,
                     claim.rawText, ReplaceNumeral(claim, actualValue),
                     failure.severity, <<claim>>, <<>>)
        relatedList == FindRelatedList(p.lists, claim)
    IN <<countCorrection>>
       \o (IF /\ relatedList # <<>>
              /\ Cents(relatedList[1].itemCount) # actualValue
           THEN fixDeviceList(relatedList[1], actualValue, failure)
           ELSE <<>>)

\* ResponseCorrector.fixDeviceCountMismatches
fixDeviceCountMismatches(p, deviceCountFailures) ==
  Flatten([i \in 1..Len(deviceCountFailures) |->
             DeviceCountCorrections(p, deviceCountFailures[i])])

\* the `remove` action of a failure without an actual value
Unavailable(failure, what, relatedClaim) ==
  Correction("remove", failure.claim.startIndex, failure.claim.endIndex,
             failure.claim.rawText, "[" \o what \o " unavailable]",
             failure.severity, relatedClaim, <<>>)

\* ResponseCorrector.fixCountErrors, one failure
CountCorrection(failure) ==
  LET claim == failure.claim
  IN IF failure.actualValue = <<>>
     THEN Unavailable(failure, "count", <<claim>>)
     ELSE Correction("replace", claim.startIndex, claim.endIndex,
                     claim.rawText,
                     ReplaceNumeral(claim, failure.actualValue[1]),
                     failure.severity, <<claim>>, <<>>)

\* ResponseCorrector.fixCountErrors
fixCountErrors(failures) ==
  [i \in 1..Len(failures) |-> CountCorrection(failures[i])]

\* ResponseCorrector.fixPercentageErrors, one failure
PercentageCorrection(failure) ==
  LET claim == failure.claim
  IN IF failure.actualValue = <<>>
     THEN Unavailable(failure, "percentage", <<claim>>)
     ELSE Correction("replace", claim.startIndex, claim.endIndex,
                     claim.rawText,
                     Replace(claim.rawText, NumToString(claim.value),
                             ToFixed1(failure.actualValue[1])),
                     failure.severity, <<claim>>, <<>>)

\* ResponseCorrector.fixPercentageErrors
fixPercentageErrors(failures) ==
  [i \in 1..Len(failures) |-> PercentageCorrection(failures[i])]

\* ResponseCorrector.fixUptimeErrors, one failure
UptimeCorrection(failure) ==
  LET claim == failure.claim
  IN IF failure.actualValue = <<>>
     THEN Unavailable(failure, "uptime", <<claim>>)
     ELSE Correction("replace", claim.startIndex, claim.endIndex,
                     claim.rawText,
                     Replace(claim.rawText, NumToString(claim.value) \o "%",
                             ToFixed1(failure.actualValue[1]) \o "%"),
                     failure.severity, <<claim>>, <<>>)

\* ResponseCorrector.fixUptimeErrors
fixUptimeErrors(failures) ==
  [i \in 1..Len(failures) |-> UptimeCorrection(failures[i])]

\* ResponseCorrector.fixStreamAggregationErrors, one failure
StreamCorrection(failure) ==
  LET claim == failure.claim
  IN IF failure.actualValue = <<>>
     THEN Unavailable(failure, claim.type, <<>>)
     ELSE Correction("replace", claim.startIndex, claim.endIndex,
                     claim.rawText,
                     Replace(claim.rawText, NumToString(claim.value),
                             ToFixed2(failure.actualValue[1])),
                     failure.severity, <<>>, <<>>)

\* ResponseCorrector.fixStreamAggregationErrors
fixStreamAggregationErrors(failures) ==
  [i \in 1..Len(failures) |-> StreamCorrection(failures[i])]

\* the pool sorted by ascending start offset
SortCorrections_Ascending(corrections) ==
  Values(SortByKey([i \in 1..Len(corrections) |->
                      [k |-> corrections[i].location.start,
                       v |-> corrections[i]]]))

\* corrections.sort((a, b) => b.location.start - a.location.start)
SortCorrections(corrections) ==
  Values(SortByKey([i \in 1..Len(corrections) |->
                      [k |-> 0 - corrections[i].location.start,
                       v |-> corrections[i]]]))

\* one splice of the commit loop
Splice(text, correction) ==
  Substring(text, 0, correction.location.start)
  \o correction.corrected
  \o SubstringFrom(text, correction.location.end)

\* the commit loop over the sorted corrections
RECURSIVE ApplyCorrections(_, _)
ApplyCorrections(text, corrections) ==
  IF corrections = <<>> THEN text
  ELSE ApplyCorrections(Splice(text, Head(corrections)), Tail(corrections))

\* the failing validations, most severe first
Failures(vs) ==
  LET failed == FilterFlags(vs, [i \in 1..Len(vs) |-> ~vs[i].isValid])
  IN Values(SortByKey([i \in 1..Len(failed) |->
                         [k |-> 0 - severityWeight(failed[i].severity),
                          v |-> failed[i]]]))

Select(failures, class) ==
  FilterFlags(failures, [i \in 1..Len(failures) |->
    LET c == failures[i].claim
    IN CASE class = "deviceCount" -> c.entity = "device" /\ c.type = "count"
         [] class = "otherCount" -> c.entity # "device" /\ c.type = "count"
         [] class = "percentage" -> c.type = "percentage"
         [] class = "uptime" -> c.filter = "uptime"
         [] class = "stream" -> c.entity = "stream"])

\* the corrections of the five classes, pooled in generation order
PoolCorrections(p, failures) ==
  fixDeviceCountMismatches(p, Select(failures, "deviceCount"))
  \o fixCountErrors(Select(failures, "otherCount"))
  \o fixPercentageErrors(Select(failures, "percentage"))
  \o fixUptimeErrors(Select(failures, "uptime"))
  \o fixStreamAggregationErrors(Select(failures, "stream"))

\* the CorrectedResponse of a run without corrections
Uncorrected(text, vs, nLists) ==
  [text |-> text, correctionsMade |-> FALSE, corrections |-> <<>>,
   severity |-> "none", validationResults |-> vs,
   metadata |-> [originalLength |-> Len(text),
                 correctedLength |-> Len(text),
                 claimsValidated |-> Len(vs), claimsCorrected |-> 0,
                 listsValidated |-> nLists, listsCorrected |-> 0]]

\* ResponseCorrector.correctResponse: the CorrectedResponse, or TypeError
\* when a correction class throws
correctResponse(p, vs) ==
  LET failures == Failures(vs)
      pool == PoolCorrections(p, failures)
      corrections == SortCorrections(pool)
      correctedText == ApplyCorrections(p.originalText, corrections)
  IN IF Len(failures) = 0
     THEN Uncorrected(p.originalText, vs, Len(p.lists))
     ELSE IF \E i \in 1..Len(pool) : Threw(pool[i]) THEN TypeError
     ELSE [text |-> correctedText, correctionsMade |-> TRUE,
           corrections |-> corrections,
           severity |-> getMaxSeverity(corrections),
           validationResults |-> vs,
           metadata |->
             [originalLength |-> Len(p.originalText),
              correctedLength |-> Len(correctedText),
              claimsValidated |-> Len(vs),
              claimsCorrected |-> Len(corrections),
              listsValidated |-> Len(p.lists),
              listsCorrected |->
                Cardinality({i \in 1..Len(corrections) :
                               corrections[i].type
                                 \in {"truncate", "regenerate"}})]]

\* an unchanged response that reports corrections
NoCorrectionsNeeded_Marked(text, vs, nLists) ==
  [text |-> text, correctionsMade |-> TRUE, corrections |-> <<>>,
   severity |-> "none", validationResults |-> vs,
   metadata |-> [originalLength |-> Len(text),
                 correctedLength |-> Len(text),
                 claimsValidated |-> Len(vs), claimsCorrected |-> 0,
                 listsValidated |-> nLists, listsCorrected |-> 0]]

\* the CorrectedResponse validateAndCorrectResponse returns itself when
\* nothing failed and no mismatch was detected
NoCorrectionsNeeded(text, vs, nLists) ==
  [text |-> text, correctionsMade |-> FALSE, corrections |-> <<>>,
   severity |-> "none", validationResults |-> vs,
   metadata |-> [originalLength |-> Len(text),
                 correctedLength |-> Len(text),
                 claimsValidated |-> Len(vs), claimsCorrected |-> 0,
                 listsValidated |-> nLists, listsCorrected |-> 0]]

\* the filter of agenticLoop before validation: error results are dropped
SuccessfulToolResults(trs) ==
  FilterFlags(trs, [i \in 1..Len(trs) |-> ~trs[i].is_error])

(***************************************************************************)
(* Inputs: answer texts and tool-result corpora                            *)
(***************************************************************************)
\* the largest number of devices in a list_devices result
MaxDevices == 12

DeviceItem(i, status) ==
  JObj([name |-> JStr("r" \o ToString(i)), connection_status |-> JStr(status)])

\* a listing of nc connected devices followed by nd disconnected ones
ListDevices(id, nc, nd) ==
  ToolResult(id, "list_devices",
             JObj([count |-> JNum(Cents(nc + nd)),
                   list |-> JArr([i \in 1..(nc + nd) |->
                                   DeviceItem(i, IF i <= nc THEN "connected"
                                                 ELSE "disconnected")])]),
             FALSE)

Availability(id, percent) ==
  ToolResult(id, "get_device_availability_report",
             JObj([uptime_percent |-> JNum(percent)]), FALSE)

ListAlerts(id, n) ==
  ToolResult(id, "list_alerts",
             JObj([count |-> JNum(Cents(n)),
                   list |-> JArr([i \in 1..n |-> JObj([id |-> JNum(Cents(i))])])]),
             FALSE)

ConnectionReport(id, c, d) ==
  ToolResult(id, "get_connection_report",
             JObj([connected |-> JObj([count |-> JNum(Cents(c))]),
                   disconnected |-> JObj([count |-> JNum(Cents(d))])]),
             FALSE)

\* a rollup series: one item with a numeric value per rollup
Rollups(id, values) ==
  ToolResult(id, "get_stream_rollups",
             JObj([count |-> JNum(Cents(Len(values))),
                   list |-> JArr([i \in 1..Len(values) |->
                                   JObj([value |-> JNum(values[i])])])]),
             FALSE)

\* the record of a tool call that failed (is_error), whatever its content
Failed(toolResult) == [toolResult EXCEPT !.is_error = TRUE]

\* results that are not the documents the strategies expect: text that is
\* not JSON, JSON that is no object, a list that is no array, null items
Malformed ==
  {<<ToolResult("t1", "list_devices", NotJson, FALSE)>>,
   <<ToolResult("t1", "list_devices", JNum(Cents(9)), FALSE)>>,
   <<ToolResult("t1", "list_devices", JNull, FALSE)>>,
   <<ToolResult("t1", "list_devices", JObj([list |-> JStr("r1")]), FALSE)>>,
   <<ToolResult("t1", "list_devices", JObj([list |-> JArr(<<JNull>>)]),
                FALSE)>>,
   <<ToolResult("t1", "list_devices",
                JObj([list |-> JArr(<<DeviceItem(1, "connected"), JNull>>)]),
                FALSE)>>,
   <<ToolResult("t1", "list_alerts", JObj([list |-> JArr(<<JNull>>)]),
                FALSE)>>,
   <<ToolResult("t1", "get_connection_report",
                JObj([connected |-> JNull, disconnected |-> JNum(Cents(3))]),
                FALSE)>>,
   <<ToolResult("t1", "get_device_availability_report",
                JObj([uptime_percent |-> JStr("98.7")]), FALSE)>>}

RECURSIVE BulletLines(_, _)
BulletLines(i, n) ==
  IF i > n THEN ""
  ELSE "\n- r" \o ToString(i) \o BulletLines(i + 1, n)

RECURSIVE NumberedLines(_, _)
NumberedLines(i, n) ==
  IF i > n THEN ""
  ELSE "\n" \o ToString(i) \o ". r" \o ToString(i) \o NumberedLines(i + 1, n)

Texts == {
  "Connected devices: 9",
  "Connected devices: 12",
  "Status: Connected devices: 9. Disconnected devices: 3.",
  "**Online (5 sites):** 5 devices",
  "Uptime: 98.73%",
  "Uptime: 98.73% over the last 30 days",
  "There are 8 connected devices.\n\nConnected devices:" \o BulletLines(1, 12),
  "There are 8 connected devices.\n\nConnected devices:"
    \o NumberedLines(1, 12) \o "\n\nAll good.",
  "Found 3 alerts and 2 streams. Total: 1,234.5, average: 7.25",
  "Connected devices: 9. Uptime: 98.73%. 20 alerts.",
  "Active devices: 3 alerts",
  "Total devices: 3.\n\nOnline devices:\n- r1",
  "Online devices:\n- r1\n\nOffline devices:\n- r2\n- r3",
  "All systems are operating normally."
}

\* uptime_percent values of the availability report, in hundredths
UptimeValues == {9500, 9860, 9870, 9880, 10000}

Corpora ==
  {<<>>,
   <<ListDevices("t1", 12, 3), Availability("t2", 9500),
     ListAlerts("t3", 19)>>,
   <<ListDevices("t1", 9, 3), Availability("t2", 9870), ListAlerts("t3", 19)>>,
   <<ListAlerts("t1", 5), ConnectionReport("t2", 9, 3)>>,
   <<ToolResult("t1", "list_devices", NotJson, TRUE),
     ConnectionReport("t2", 12, 3)>>}
  \cup {<<ListDevices("t1", nc, 3)>> : nc \in 0..MaxDevices}
  \cup {<<Availability("t1", percent)>> : percent \in UptimeValues}
  \cup Malformed

(***************************************************************************)
(* DANIAgent: the final branch of agenticLoop and                          *)
(* validateAndCorrectResponse, one action per step                         *)
(***************************************************************************)
Idle == "idle"

\* the agent takes no part
NoAgent ==
  /\ conversations = <<>> /\ heap = <<>>
  /\ call = Idle /\ agentConfig = Idle /\ now = 0

Init ==
  /\ NoAgent
  /\ pc = "final"
  /\ responseText \in Texts
  /\ toolResultsCache \in Corpora
  /\ toolResults = <<>>
  /\ parsed = Idle
  /\ validations = <<>>
  /\ mismatches = <<>>
  /\ response = Idle
  /\ vClaim = Idle /\ vResult = Idle
  /\ vConfig \in {DEFAULT_CONFIG, [DEFAULT_CONFIG EXCEPT !.autoCorrect = FALSE]}
  /\ cText = Idle /\ cPool = Idle /\ cOut = Idle

\* agenticLoop: the final response arrived; error results are filtered out
FinalResponse ==
  /\ pc = "final"
  /\ toolResults' = SuccessfulToolResults(toolResultsCache)
  /\ pc' = "parse"
  /\ UNCHANGED agentVars
  /\ UNCHANGED <<responseText, toolResultsCache, parsed, validations,
                 mismatches, response, vClaim, vConfig, vResult, cText,
                 cPool, cOut>>

\* Step 1: parser.parse(responseText)
Parse ==
  /\ pc = "parse"
  /\ parsed' = parse(responseText)
  /\ pc' = "validate"
  /\ UNCHANGED agentVars
  /\ UNCHANGED <<responseText, toolResultsCache, toolResults, validations,
                 mismatches, response, vClaim, vConfig, vResult, cText,
                 cPool, cOut>>

\* Step 2: validator.validateAll(parsed.claims, toolResults); a TypeError
\* of a strategy ends the run at the claim that raised it
ValidateAll ==
  /\ pc = "validate"
  /\ \E vs \in {validateAll(vConfig, parsed.claims, toolResults)} :
       LET thrower == Least({i \in 1..Len(vs) : Threw(vs[i])})
           reached == IF thrower = -1 THEN parsed.claims
                      ELSE SubSeq(parsed.claims, 1, thrower)
       IN /\ validations' = IF thrower = -1 THEN vs ELSE validations
          /\ pc' = IF thrower = -1 THEN "detect" ELSE "threw"
          /\ toolResults' = CacheAfterValidateAll(reached, toolResults,
                                                  toolResults)
          /\ toolResultsCache' = CacheAfterValidateAll(reached, toolResults,
                                                       toolResultsCache)
  /\ UNCHANGED agentVars
  /\ UNCHANGED <<responseText, parsed, mismatches, response, vClaim, vConfig,
                 vResult, cText, cPool, cOut>>

\* Step 3: parser.detectCountListMismatches(parsed)
DetectMismatches ==
  /\ pc = "detect"
  /\ mismatches' = detectCountListMismatches(parsed)
  /\ pc' = "decide"
  /\ UNCHANGED agentVars
  /\ UNCHANGED <<responseText, toolResultsCache, toolResults, parsed,
                 validations, response, vClaim, vConfig, vResult, cText,
                 cPool, cOut>>

Errors(vs) == FilterFlags(vs, [i \in 1..Len(vs) |-> ~vs[i].isValid])

\* Step 4: no error and no mismatch, the text is returned as it is
ReturnUnchanged ==
  /\ pc = "decide"
  /\ Len(Errors(validations)) = 0 /\ Len(mismatches) = 0
  /\ response' = NoCorrectionsNeeded(responseText, validations,
                                     Len(parsed.lists))
  /\ pc' = "done"
  /\ UNCHANGED agentVars
  /\ UNCHANGED <<responseText, toolResultsCache, toolResults, parsed,
                 validations, mismatches, vClaim, vConfig, vResult, cText,
                 cPool, cOut>>

\* Step 5: corrector.correctResponse(parsed, validations, toolResults); a
\* TypeError of the corrector ends the run without a response
Correct ==
  /\ pc = "decide"
  /\ ~(Len(Errors(validations)) = 0 /\ Len(mismatches) = 0)
  /\ \E r \in {correctResponse(parsed, validations)} :
       /\ response' = IF Threw(r) THEN response ELSE r
       /\ pc' = IF Threw(r) THEN "threw" ELSE "done"
  /\ UNCHANGED agentVars
  /\ UNCHANGED <<responseText, toolResultsCache, toolResults, parsed,
                 validations, mismatches, vClaim, vConfig, vResult, cText,
                 cPool, cOut>>

Next ==
  \/ FinalResponse
  \/ Parse
  \/ ValidateAll
  \/ DetectMismatches
  \/ ReturnUnchanged
  \/ Correct

Spec == Init /\ [][Next]_vars

(***************************************************************************)
(* The commit step of correctResponse on its own: the classes push          *)
(* corrections with non-empty, in-range, pairwise non-overlapping spans in  *)
(* any order, then the pool is sorted and spliced                           *)
(***************************************************************************)
\* the largest pool
MaxPool == 3

\* the length of the text the pool edits
MaxText == 4

CommitText == SubSeq("abcdefgh", 1, MaxText)

Disjoint(a, b) ==
  \/ a.location.end <= b.location.start
  \/ b.location.end <= a.location.start

CommitInit ==
  /\ NoAgent
  /\ pc = "pool"
  /\ cText = CommitText
  /\ cPool = <<>>
  /\ cOut = Idle
  /\ responseText = Idle /\ toolResultsCache = <<>> /\ toolResults = <<>>
  /\ parsed = Idle /\ validations = <<>> /\ mismatches = <<>>
  /\ response = Idle
  /\ vClaim = Idle /\ vConfig = Idle /\ vResult = Idle

\* corrections.push(...) of one correction that overlaps none of the pool;
\* its replacement is shorter or longer than the span it replaces
PushCorrection ==
  /\ pc = "pool"
  /\ Len(cPool) < MaxPool
  /\ \E start \in 0..(Len(cText) - 1), end \in 1..Len(cText),
        corrected \in {"", "XY"} :
       LET c == Correction("replace", start, end,
                           Substring(cText, start, end), corrected, "minor",
                           <<>>, <<>>)
       IN /\ start < end
          /\ \A i \in 1..Len(cPool) : Disjoint(cPool[i], c)
          /\ cPool' = Append(cPool, c)
  /\ UNCHANGED agentVars
  /\ UNCHANGED <<pc, responseText, toolResultsCache, toolResults, parsed,
                 validations, mismatches, response, vClaim, vConfig, vResult,
                 cText, cOut>>

\* the sort and the splice loop
CommitCorrections ==
  /\ pc = "pool"
  /\ cOut' = ApplyCorrections(cText, SortCorrections(cPool))
  /\ pc' = "committed"
  /\ UNCHANGED agentVars
  /\ UNCHANGED <<responseText, toolResultsCache, toolResults, parsed,
                 validations, mismatches, response, vClaim, vConfig, vResult,
                 cText, cPool>>

CommitNext ==
  \/ PushCorrection
  \/ CommitCorrections

CommitSpec == CommitInit /\ [][CommitNext]_vars

(***************************************************************************)
(* MathValidator.validate on its own: one claim the parser can produce,    *)
(* one corpus, one configuration                                            *)
(***************************************************************************)
\* the largest claimed and actual count
MaxCount == 4

\* the largest whole countTolerance
MaxTolerance == 2

ClaimTexts ==
  UNION {{"Connected devices: " \o ToString(n),
          "Disconnected devices: " \o ToString(n),
          "Never connected: " \o ToString(n) \o " devices",
          "Total devices: " \o ToString(n),
          ToString(n) \o " active devices",
          ToString(n) \o " alerts",
          ToString(n) \o " streams",
          "Uptime: " \o ToString(n) \o "%"} : n \in 0..MaxCount}

\* NumericClaims about the average and the sum of a stream; no pattern of
\* the parser produces them, a caller of validate builds them
StreamClaims ==
  {[type |-> type, entity |-> "stream", value |-> Cents(n),
    startIndex |-> 0, endIndex |-> Len(type) + 3,
    rawText |-> type \o ": " \o ToString(n), filter |-> undefined] :
     type \in {"average", "sum"}, n \in 0..MaxCount}

ValidateCorpora ==
  {<<>>}
  \cup {<<ListDevices("t1", nc, nd)>> : nc \in 0..MaxCount, nd \in 0..1}
  \cup {<<ListAlerts("t1", n)>> : n \in 0..MaxCount}
  \cup {<<ConnectionReport("t1", c, 1)>> : c \in 0..MaxCount}
  \cup {<<Availability("t1", Cents(n))>> : n \in 0..MaxCount}
  \cup {<<ConnectionReport("t1", 2, 1), ListDevices("t2", nc, 1)>> :
          nc \in {1, 3}}
  \cup {<<ToolResult("t1", "list_devices", JObj([count |-> JNum(0)]), FALSE),
          ConnectionReport("t2", 2, 1)>>,
         <<ListDevices("t1", 1, 1), ListDevices("t2", 3, 1)>>,
         <<ListDevices("t1", 2, 0), ListDevices("t2", 0, 1)>>}
  \cup {<<Failed(ListDevices("t1", nc, 1))>> : nc \in 0..MaxCount}
  \cup {<<Failed(ListAlerts("t1", 2))>>,
         <<Failed(ConnectionReport("t1", 2, 1))>>,
         <<Failed(Availability("t1", Cents(2)))>>,
         <<ToolResult("t1", "list_devices", NotJson, TRUE)>>,
         <<Failed(ListDevices("t1", 2, 1)), Failed(ListDevices("t2", 1, 1))>>,
         <<Failed(ListDevices("t1", 2, 1)), ConnectionReport("t2", 2, 1)>>}
  \cup Malformed
  \cup {<<Rollups("t1", <<Cents(2), Cents(4)>>)>>,
         <<Rollups("t1", <<Cents(1), Cents(1), Cents(1)>>)>>,
         <<ToolResult("t1", "get_stream_rollups",
                      JObj([list |-> JArr(<<JNull>>)]), FALSE)>>}

\* new MathValidator(logger, {countTolerance}): the default configuration
\* with one field overridden
Configs ==
  {[DEFAULT_CONFIG EXCEPT !.countTolerance = t] :
     t \in {Cents(k) : k \in 0..MaxTolerance} \cup {50}}

ValidateInit ==
  /\ NoAgent
  /\ pc = "claim"
  /\ vClaim \in StreamClaims
                \cup UNION {{extractClaims(text)[i] :
                               i \in 1..Len(extractClaims(text))} :
                            text \in ClaimTexts}
  /\ vConfig \in Configs
  /\ toolResults \in ValidateCorpora
  /\ vResult = Idle
  /\ responseText = Idle /\ toolResultsCache = <<>>
  /\ parsed = Idle /\ validations = <<>> /\ mismatches = <<>>
  /\ response = Idle
  /\ cText = Idle /\ cPool = Idle /\ cOut = Idle

\* validator.validate(claim, toolResults), which returns or throws
Validate ==
  /\ pc = "claim"
  /\ \E r \in {validate(vConfig, vClaim, toolResults)} :
       /\ vResult' = r
       /\ pc' = IF Threw(r) THEN "threw" ELSE "validated"
  /\ toolResults' = CacheAfterValidateAll(<<vClaim>>, toolResults, toolResults)
  /\ UNCHANGED agentVars
  /\ UNCHANGED <<responseText, toolResultsCache, parsed, validations,
                 mismatches, response, vClaim, vConfig, cText, cPool, cOut>>

ValidateSpec == ValidateInit /\ [][Validate]_vars

(***************************************************************************)
(* Properties                                                               *)
(***************************************************************************)
\* the text with each span of the pool replaced, built left to right
RECURSIVE Rebuilt(_, _, _)
Rebuilt(text, pool, i) ==
  IF i >= Len(text) THEN ""
  ELSE IF \E k \in 1..Len(pool) : pool[k].location.start = i
  THEN LET k == CHOOSE k \in 1..Len(pool) : pool[k].location.start = i
       IN pool[k].corrected \o Rebuilt(text, pool, pool[k].location.end)
  ELSE CharAt(text, i) \o Rebuilt(text, pool, i + 1)

Orders(n) ==
  {f \in [1..n -> 1..n] : \A i, j \in 1..n : f[i] = f[j] => i = j}

\* C1: for a pool of pairwise non-overlapping spans the committed text is
\* the original with each span replaced by its replacement and every other
\* character kept in order, and it is the same for every insertion order of
\* the pool
C1_OffsetStable ==
  pc = "committed" =>
    /\ cOut = Rebuilt(cText, cPool, 0)
    /\ \A f \in Orders(Len(cPool)) :
         ApplyCorrections(cText,
           SortCorrections([i \in 1..Len(cPool) |-> cPool[f[i]]])) = cOut

\* a pool pushed left to right whose first replacement changes the length
C1_Witness ==
  /\ pc = "committed"
  /\ Len(cPool) >= 2
  /\ cPool[1].location.start < cPool[2].location.start
  /\ Len(cPool[1].corrected) # cPool[1].location.end - cPool[1].location.start
  /\ cOut # cText

Corrections == IF pc = "done" THEN response.corrections ELSE <<>>

\* C2: the corrections correctResponse pools and applies have pairwise
\* non-overlapping spans
C2_NonOverlapping ==
  \A i, j \in 1..Len(Corrections) :
    i < j => Disjoint(Corrections[i], Corrections[j])

\* the correction c was emitted for the claim
ActionFor(c, claim) ==
  \/ c.relatedClaim = <<claim>>
  \/ /\ c.relatedClaim = <<>>
     /\ c.type # "regenerate"
     /\ c.location.start = claim.startIndex
     /\ c.location.end = claim.endIndex

NoGroundTruth(v) == v.actualValue = <<>>

\* C3 as stated: a claim without ground truth is valid with severity none
\* and a null actual value, no correction is emitted for it, and its text
\* is still in the answer that is returned
C3_Untouched ==
  pc = "done" =>
    \A i \in 1..Len(validations) :
      NoGroundTruth(validations[i]) =>
        /\ validations[i].isValid
        /\ validations[i].severity = "none"
        /\ \A k \in 1..Len(Corrections) :
             ~ActionFor(Corrections[k], validations[i].claim)
        /\ Includes(response.text, validations[i].claim.rawText)

\* C3 amended: a claim without ground truth is valid with severity none and
\* a null actual value, and no correction is emitted for it
C3_NoCorrection ==
  pc = "done" =>
    \A i \in 1..Len(validations) :
      NoGroundTruth(validations[i]) =>
        /\ validations[i].isValid
        /\ validations[i].severity = "none"
        /\ validations[i].groundTruth = <<>>
        /\ \A k \in 1..Len(Corrections) :
             ~ActionFor(Corrections[k], validations[i].claim)

\* a run that corrects one claim and leaves another, unverifiable one alone
C3_Witness ==
  /\ pc = "done"
  /\ response.correctionsMade
  /\ \E i \in 1..Len(validations) :
       /\ NoGroundTruth(validations[i])
       /\ Includes(response.text, validations[i].claim.rawText)
  /\ \E i \in 1..Len(validations) : ~validations[i].isValid

\* the claim's raw text with the captured numeral replaced by the actual
\* value
NumeralReplaced(claim, actualValue) ==
  LET fits == {i \in 1..Len(CLAIM_PATTERNS) :
                 /\ CLAIM_PATTERNS[i].claimType = claim.type
                 /\ CLAIM_PATTERNS[i].entityType = claim.entity
                 /\ CLAIM_PATTERNS[i].filter = claim.filter
                 /\ MatchAt(CLAIM_PATTERNS[i].regex, claim.rawText,
                            CLAIM_PATTERNS[i].ci, 0).pos = Len(claim.rawText)}
      i == CHOOSE i \in fits : TRUE
      m == MatchAt(CLAIM_PATTERNS[i].regex, claim.rawText,
                   CLAIM_PATTERNS[i].ci, 0)
  IN Substring(claim.rawText, 0, m.cs) \o NumToString(actualValue)
     \o SubstringFrom(claim.rawText, m.ce)

FailingDeviceCount(v) ==
  /\ ~v.isValid
  /\ v.claim.entity = "device" /\ v.claim.type = "count"
  /\ v.actualValue # <<>>

\* C4: a failing device-count claim with an actual value and no device
\* list within the proximity window gets exactly one correction: a replace
\* of severity critical over the claim's span whose replacement is the raw
\* text with only the claimed numeral replaced by the actual value
C4_ReplaceNumeral ==
  pc = "done" =>
    \A i \in 1..Len(validations) :
      (/\ FailingDeviceCount(validations[i])
       /\ FindRelatedList(parsed.lists, validations[i].claim) = <<>>) =>
        LET claim == validations[i].claim
            acts == {k \in 1..Len(Corrections) :
                       Corrections[k].relatedClaim = <<claim>>}
        IN /\ Cardinality(acts) = 1
           /\ \A k \in acts :
                /\ Corrections[k].type = "replace"
                /\ Corrections[k].severity = "critical"
                /\ Corrections[k].location.start = claim.startIndex
                /\ Corrections[k].location.end = claim.endIndex
                /\ Corrections[k].corrected =
                     NumeralReplaced(claim, validations[i].actualValue[1])

Newlines(s) == Cardinality({i \in 0..(Len(s) - 1) : CharAt(s, i) = "\n"})

\* C5: when the answer states 8 devices beside a 12-item device list and
\* the ground truth confirms 8, a regenerate correction replaces the list
\* body by 8 lines and the count still reads 8
C5_ListRegenerated ==
  pc = "done" =>
    \A m \in 1..Len(mismatches) :
      (/\ mismatches[m].claimedCount = Cents(8)
       /\ mismatches[m].actualCount = 12
       /\ mismatches[m].list.type = "device"
       /\ \E i \in 1..Len(validations) :
            /\ validations[i].claim = mismatches[m].claim
            /\ validations[i].actualValue = <<Cents(8)>>) =>
        /\ Includes(response.text, mismatches[m].claim.rawText)
        /\ \E k \in 1..Len(Corrections) :
             /\ Corrections[k].type = "regenerate"
             /\ Newlines(Corrections[k].corrected) = 8

OnlyAvailability(percent) ==
  /\ responseText = "Uptime: 98.73%"
  /\ Len(toolResults) = 1
  /\ toolResults[1].toolName = "get_device_availability_report"
  /\ Get(toolResults[1].content, "uptime_percent") = JNum(percent)

\* C6 as stated: for 'Uptime: 98.73%' and an availability report of 98.7
\* under the default configuration the output contains 'Uptime: 98.7%'
C6_Rewritten ==
  (pc = "done" /\ OnlyAvailability(9870)) =>
    Includes(response.text, "Uptime: 98.7%")

\* C6 amended: for 'Uptime: 98.73%' under the default configuration the
\* text is returned unchanged when the availability report is within
\* 0.1 (10 hundredths) of the claim (98.7 is), and otherwise the output
\* contains the uptime rewritten to the actual value at one decimal place
C6_RewrittenBeyondTolerance ==
  \A percent \in UptimeValues :
    (pc = "done" /\ OnlyAvailability(percent)) =>
      IF Abs(9873 - percent) <= 10
      THEN response.text = responseText /\ ~response.correctionsMade
      ELSE Includes(response.text, "Uptime: " \o ToFixed1(percent) \o "%")

\* the report 98.7 leaves the text alone, or the report 95 rewrites it
C6_Witness ==
  /\ pc = "done"
  /\ \/ OnlyAvailability(9870) /\ response.text = "Uptime: 98.73%"
     \/ OnlyAvailability(9500) /\ response.text = "Uptime: 95.0%"

\* C7: with no invalid result and no mismatch the original text is returned
\* with correctionsMade false, no corrections and severity none; and
\* whenever correctionsMade is false the returned text is the input text
C7_Unchanged ==
  pc = "done" =>
    /\ (Len(Errors(validations)) = 0 /\ Len(mismatches) = 0) =>
         /\ response.text = responseText
         /\ response.correctionsMade = FALSE
         /\ response.corrections = <<>>
         /\ response.severity = "none"
    /\ response.correctionsMade = FALSE => response.text = responseText

\* verified claims, all valid, and no mismatch
C7_Witness ==
  /\ pc = "done"
  /\ Len(Errors(validations)) = 0 /\ Len(mismatches) = 0
  /\ \E i \in 1..Len(validations) : validations[i].actualValue # <<>>
  /\ response.text = responseText

CountWithTruth ==
  /\ pc = "validated"
  /\ vClaim.type = "count"
  /\ vResult.actualValue # <<>>

\* C8: a count claim with ground truth is valid exactly when
\* |claimed - actual| <= countTolerance
C8_CountTolerance ==
  CountWithTruth =>
    (vResult.isValid <=>
       Abs(vClaim.value - vResult.actualValue[1]) <= vConfig.countTolerance)

\* an error equal to a positive tolerance, valid
C8_Witness ==
  /\ CountWithTruth
  /\ vConfig.countTolerance > 0
  /\ Abs(vClaim.value - vResult.actualValue[1]) = vConfig.countTolerance
  /\ vResult.isValid

DeviceCountOff ==
  /\ pc = "validated"
  /\ vClaim.entity = "device" /\ vClaim.type = "count"
  /\ vResult.actualValue # <<>>
  /\ Abs(vClaim.value - vResult.actualValue[1]) > 0

\* C9: a device-count claim with ground truth and a nonzero error has
\* severity critical, whatever the percentage, the qualifier and the
\* tolerance
C9_DeviceCountCritical == DeviceCountOff => vResult.severity = "critical"

\* an error within the tolerance: the claim is valid and still critical
C9_Witness ==
  /\ DeviceCountOff
  /\ vResult.isValid
  /\ vResult.severity = "critical"

Rank(severity) ==
  CASE severity = "none" -> 0
    [] severity = "minor" -> 1
    [] severity = "major" -> 2
    [] severity = "critical" -> 3

\* C10: the severity of the response is the greatest severity among the
\* applied corrections under none < minor < major < critical, and none
\* when no correction was applied
C10_MaxSeverity ==
  pc = "done" =>
    IF response.corrections = <<>> THEN response.severity = "none"
    ELSE /\ \E k \in 1..Len(response.corrections) :
              response.corrections[k].severity = response.severity
         /\ \A k \in 1..Len(response.corrections) :
              Rank(response.corrections[k].severity) <= Rank(response.severity)

\* corrections of three different severities
C10_Witness ==
  /\ pc = "done"
  /\ {response.corrections[k].severity : k \in 1..Len(response.corrections)}
       = {"minor", "major", "critical"}
  /\ response.severity = "critical"

\* the strategy is among those validate filters in for the claim
Applicable(s, claim, trs) ==
  /\ claim.type \in s.applicableClaimTypes
  /\ \E j \in 1..Len(trs) : trs[j].toolName \in s.applicableTools

\* the applicable strategies that return ground truth and that no
\* applicable strategy returning ground truth outranks
Foremost(claim, trs) ==
  LET yields == {i \in 1..Len(strategies) :
                   /\ Applicable(strategies[i], claim, trs)
                   /\ Extract(strategies[i].name, claim, trs) # <<>>}
  IN {i \in yields :
        \A j \in yields : strategies[j].priority <= strategies[i].priority}

HasParsable(trs, toolName) ==
  \E j \in 1..Len(trs) :
    /\ trs[j].toolName = toolName
    /\ ~trs[j].is_error
    /\ trs[j].content.k = "obj"

\* C11: the ground truth of a validation comes from the applicable strategy
\* of greatest priority among those that return ground truth, and there is
\* none when no applicable strategy returns any; for a device count with
\* parsable list_devices and get_connection_report results the source is
\* list_devices unless the list_devices strategy returns null
C11_PriorityOrder ==
  pc = "validated" =>
    /\ Foremost(vClaim, toolResults) = {} => vResult.groundTruth = <<>>
    /\ \A i \in Foremost(vClaim, toolResults) :
         vResult.groundTruth # <<>> =>
           vResult.groundTruth[1].source \in strategies[i].applicableTools
    /\ (/\ vClaim.entity = "device" /\ vClaim.type = "count"
        /\ HasParsable(toolResults, "list_devices")
        /\ HasParsable(toolResults, "get_connection_report")
        /\ vResult.groundTruth # <<>>) =>
         (vResult.groundTruth[1].source = "list_devices"
            <=> device_count_from_list_devices(vClaim, toolResults) # <<>>)

\* both results present and both strategies return ground truth: the
\* listing supplies it
C11_Witness ==
  /\ pc = "validated"
  /\ vClaim.entity = "device" /\ vClaim.type = "count"
  /\ HasParsable(toolResults, "list_devices")
  /\ HasParsable(toolResults, "get_connection_report")
  /\ vResult.groundTruth # <<>>
  /\ device_count_from_connection_report(vClaim, toolResults) # <<>>
  /\ vResult.groundTruth[1].source = "list_devices"

\* every record a strategy for the claim's kind could read is error-flagged
OnlyErrorResults(claim, trs) ==
  \A j \in 1..Len(trs), i \in 1..Len(strategies) :
    (/\ claim.type \in strategies[i].applicableClaimTypes
     /\ trs[j].toolName \in strategies[i].applicableTools) => trs[j].is_error

\* C12: an error-flagged record is never parsed and never the source of a
\* ground truth, and a claim whose applicable tool results are all
\* error-flagged is unverifiable: valid, with a null actual value
C12_ErrorsIgnored ==
  pc = "validated" =>
    /\ \A j \in 1..Len(toolResults) :
         toolResults[j].is_error =>
           /\ toolResults[j].parsedContent = JUndefined
           /\ vResult.groundTruth # <<>> =>
                vResult.groundTruth[1].toolUseId # toolResults[j].tool_use_id
    /\ OnlyErrorResults(vClaim, toolResults) =>
         /\ vResult.isValid
         /\ vResult.actualValue = <<>>
         /\ vResult.groundTruth = <<>>

\* a device count against an error-flagged listing whose content is a
\* well-formed document that contradicts the claim
C12_Witness ==
  /\ pc = "validated"
  /\ vClaim.entity = "device" /\ vClaim.type = "count"
  /\ vClaim.filter = "connected"
  /\ Len(toolResults) = 1
  /\ toolResults[1].is_error
  /\ toolResults[1].toolName = "list_devices"
  /\ IsArray(Get(toolResults[1].content, "list"))
  /\ Cents(Len(FilterStatus(Get(toolResults[1].content, "list").items,
                            "connected"))) # vClaim.value
  /\ vResult.isValid
  /\ vResult.actualValue = <<>>

\* C13: for every answer text and corpus, malformed and error-flagged
\* results included, parse, validateAll and correctResponse return and the
\* run ends with a CorrectedResponse: no step raises an exception
C13_NeverThrows == pc # "threw"

\* parser.parse has returned
AfterParse == pc \in {"validate", "detect", "decide", "done", "threw"}

\* C14: every claim of the parsed response has a non-empty span inside the
\* answer text, and the text of that span is the claim's raw text
C14_ClaimSpans ==
  AfterParse =>
    \A i \in 1..Len(parsed.claims) :
      LET claim == parsed.claims[i]
      IN /\ 0 <= claim.startIndex
         /\ claim.startIndex < claim.endIndex
         /\ claim.endIndex <= Len(responseText)
         /\ Substring(responseText, claim.startIndex, claim.endIndex)
              = claim.rawText

\* claims of several patterns, one of them past the start of the text and
\* one ending before the end of the text
C14_Witness ==
  /\ AfterParse
  /\ Len(parsed.claims) >= 3
  /\ \E i \in 1..Len(parsed.claims) : parsed.claims[i].startIndex > 0
  /\ \E i \in 1..Len(parsed.claims) :
       parsed.claims[i].endIndex < Len(responseText)

\* C15: every list of the parsed response counts its items, starts at the
\* offset of its header and ends just past the text of its last item,
\* inside the answer text
C15_ListSpans ==
  AfterParse =>
    \A i \in 1..Len(parsed.lists) :
      LET list == parsed.lists[i]
          lastItem == list.items[Len(list.items)]
      IN /\ list.itemCount = Len(list.items)
         /\ Substring(responseText, list.startIndex,
                      list.startIndex + Len(list.headerText))
              = list.headerText
         /\ list.startIndex < list.endIndex
         /\ list.endIndex <= Len(responseText)
         /\ Substring(responseText, list.endIndex - Len(lastItem),
                      list.endIndex) = lastItem

\* the count claims of the list's entity kind that start within the
\* proximity window of the list's start
NearbyCounts(list, claims) ==
  {i \in 1..Len(claims) :
     /\ claims[i].entity = list.type
     /\ claims[i].type = "count"
     /\ Abs(claims[i].startIndex - list.startIndex) < ProximityWindow}

\* C16: findRelatedClaim returns the nearby count claim of the list's
\* entity kind that starts nearest to the list, and nothing when there is
\* no such claim
C16_NearestClaim ==
  AfterParse =>
    \A l \in 1..Len(parsed.lists) :
      LET list == parsed.lists[l]
          related == findRelatedClaim(list, parsed.claims)
          nearby == NearbyCounts(list, parsed.claims)
      IN IF nearby = {} THEN related = <<>>
         ELSE /\ related # <<>>
              /\ \A i \in nearby :
                   Abs(related[1].startIndex - list.startIndex)
                     <= Abs(parsed.claims[i].startIndex - list.startIndex)

\* the numeric values of a rollup series
RECURSIVE SeriesSum(_)
SeriesSum(items) ==
  IF items = <<>> THEN 0
  ELSE Get(Head(items), "value").num + SeriesSum(Tail(items))

\* a stream average or sum validated against a rollup series of numbers
AgainstRollups ==
  /\ pc = "validated"
  /\ vClaim.entity = "stream" /\ vClaim.type \in {"average", "sum"}
  /\ Len(toolResults) = 1
  /\ toolResults[1].toolName = "get_stream_rollups"
  /\ IsArray(Get(toolResults[1].content, "list"))

\* C17: a stream average (sum) with a rollup series in the corpus is
\* compared against the mean (the sum) of the values of the series
C17_Aggregate ==
  AgainstRollups =>
    LET items == Get(toolResults[1].content, "list").items
    IN /\ vResult.actualValue # <<>>
       /\ vClaim.type = "sum" => vResult.actualValue[1] = SeriesSum(items)
       /\ vClaim.type = "average" =>
            vResult.actualValue[1] * Len(items) = SeriesSum(items)

\* the replace and remove actions emitted for the claim
EditsOf(claim) ==
  {k \in 1..Len(Corrections) :
     /\ Corrections[k].type \in {"replace", "remove"}
     /\ ActionFor(Corrections[k], claim)}

\* the regenerate actions emitted for the claim
RegeneratesOf(claim) ==
  {k \in 1..Len(Corrections) :
     /\ Corrections[k].type = "regenerate"
     /\ Corrections[k].relatedClaim = <<claim>>}

\* C18: every failing validation gets exactly one replace-or-remove action on
\* the span of its claim, and at most one regenerate action, which only a
\* device count gets
C18_OneClass ==
  pc = "done" =>
    \A i \in 1..Len(validations) :
      ~validations[i].isValid =>
        LET claim == validations[i].claim
        IN /\ Cardinality(EditsOf(claim)) = 1
           /\ Cardinality(RegeneratesOf(claim)) <= 1
           /\ RegeneratesOf(claim) # {} =>
                claim.entity = "device" /\ claim.type = "count"

\* C20: with autoCorrect switched off the run applies no edit, the text it
\* returns is the original answer
C20_ReportOnly ==
  (pc = "done" /\ ~vConfig.autoCorrect) => response.text = responseText

\* a list_devices result that parses to a document with a list
ParsableListing(toolResult) ==
  /\ ~toolResult.is_error
  /\ toolResult.content.k = "obj"
  /\ IsArray(Get(toolResult.content, "list"))

\* the number of items with the status (of all items for 'total')
ListedWith(items, status) ==
  IF status = "total" THEN Len(items)
  ELSE Cardinality({i \in 1..Len(items) :
                      Get(items[i], "connection_status") = JStr(status)})

\* C19: a device count with a status qualifier, checked against parsable
\* list_devices results, is compared with the number of items of the
\* selected result whose connection_status is the qualifier (all items for
\* 'total'), and is valid when the two are equal
C19_FilteredCount ==
  LET deviceTools == ByTool(toolResults, "list_devices")
      Counted(selected) ==
        /\ ~Threw(selected)
        /\ vResult.actualValue =
             <<Cents(ListedWith(Get(selected.content, "list").items,
                                vClaim.filter))>>
        /\ vResult.actualValue = <<vClaim.value>> => vResult.isValid
  IN (/\ pc \in {"validated", "threw"}
      /\ vClaim.entity = "device" /\ vClaim.type = "count"
      /\ HasFilter(vClaim)
      /\ deviceTools # <<>>
      /\ \A j \in 1..Len(deviceTools) : ParsableListing(deviceTools[j])) =>
       /\ ~Threw(vResult)
       /\ Counted(findRelevantDeviceTool(deviceTools, vClaim.filter))

\* the count the report holds for the category, 0 when it holds none
ReportCount(data, category) ==
  IF CategoryCount(data, category).k = "num"
  THEN CategoryCount(data, category).num ELSE 0

\* what the report says about the claim's category: its count, and the sum
\* of the three counts for 'total'
ReportedFor(data, filter) ==
  IF filter = "total"
  THEN ReportCount(data, "connected") + ReportCount(data, "disconnected")
       + ReportCount(data, "never_connected")
  ELSE ReportCount(data, filter)

\* a device count validated with a parsable connection report in the corpus
\* that reports devices for its category, and no usable list_devices result
AgainstReport ==
  /\ pc = "validated"
  /\ vClaim.entity = "device" /\ vClaim.type = "count"
  /\ vClaim.filter \in {"connected", "disconnected", "never_connected",
                        "total"}
  /\ device_count_from_list_devices(vClaim, toolResults) = <<>>
  /\ HasParsable(toolResults, "get_connection_report")
  /\ ReportedFor(ByTool(toolResults, "get_connection_report")[1].content,
                 vClaim.filter) > 0

\* C21: a device count validated against the connection report is compared
\* with the report's count for its category, a 'total' claim with the sum
\* of the three category counts
C21_ReportCount ==
  AgainstReport =>
    vResult.actualValue =
      <<ReportedFor(ByTool(toolResults, "get_connection_report")[1].content,
                    vClaim.filter)>>

\* the number of consecutive lines of the text, from the line that starts at
\* pos, that are items of the style
RECURSIVE ListRun(_, _, _)
ListRun(text, pos, style) ==
  LET newline == IndexOf(text, "\n", pos)
      end == IF newline = -1 THEN Len(text) ELSE newline
  IN IF pos >= Len(text) THEN 0
     ELSE IF ExecAll(style, Substring(text, pos, end), FALSE, 0) = <<>> THEN 0
     ELSE 1 + ListRun(text, end + 1, style)

\* the first line after the header of the list
AfterHeader(text, list) ==
  LET headerEnd == list.startIndex + Len(list.headerText)
      newline == IndexOf(text, "\n", headerEnd)
  IN IF newline = -1 THEN Len(text) ELSE newline + 1

\* C22: the items of a list are the run of numbered or bulleted lines that
\* starts on the line after the header and ends before the first line that
\* is not an item of that style
C22_ContiguousRun ==
  AfterParse =>
    \A i \in 1..Len(parsed.lists) :
      LET Run(start) ==
            Max(ListRun(parsed.originalText, start, LIST_numbered),
                ListRun(parsed.originalText, start, LIST_bullet))
      IN parsed.lists[i].itemCount
           = Run(AfterHeader(parsed.originalText, parsed.lists[i]))

\* C23: validateAll hands the content of a tool-result record to JSON.parse
\* at most once, however many claims read the record
C23_ParsedOnce ==
  pc = "detect" =>
    \A j \in 1..Len(toolResults) :
      JsonParseCalls(parsed.claims, toolResults, j) <= 1

\* the list_devices results of the corpus, all parsable and without null
\* items, for a device count with a qualifier
SeveralListings ==
  /\ pc = "validated"
  /\ vClaim.entity = "device" /\ vClaim.type = "count"
  /\ HasFilter(vClaim)
  /\ ByTool(toolResults, "list_devices") # <<>>
  /\ \A j \in 1..Len(toolResults) :
       toolResults[j].toolName = "list_devices" =>
         /\ ParsableListing(toolResults[j])
         /\ ~HasNull(Get(toolResults[j].content, "list").items)

\* C24: the listing a qualified device count is checked against is the most
\* recent list_devices result whose query or first item matches the
\* qualifier, and the most recent list_devices result when none matches
C24_MostRecent ==
  SeveralListings =>
    LET deviceTools == ByTool(toolResults, "list_devices")
        matching == {j \in 1..Len(deviceTools) :
                       ToolMatchesFilter(deviceTools[j].content,
                                         vClaim.filter) = "return"}
        chosen == IF matching = {} THEN Len(deviceTools)
                  ELSE CHOOSE j \in matching : \A k \in matching : k <= j
    IN /\ vResult.groundTruth # <<>>
       /\ vResult.groundTruth[1].toolUseId = deviceTools[chosen].tool_use_id

\* C27: a validation result has severity none exactly when it is valid
C27_SeverityMatchesValidity ==
  pc = "validated" => (vResult.severity = "none" <=> vResult.isValid)

\* the maximal pieces of the text, from offset i on, that lie outside every
\* span of the corrections, in the order of the text; piece is the current one
RECURSIVE Untouched(_, _, _, _)
Untouched(text, cs, i, piece) ==
  LET covered == \E k \in 1..Len(cs) :
                   cs[k].location.start <= i /\ i < cs[k].location.end
      done == IF piece = "" THEN <<>> ELSE <<piece>>
  IN IF i >= Len(text) THEN done
     ELSE IF covered THEN done \o Untouched(text, cs, i + 1, "")
     ELSE Untouched(text, cs, i + 1, piece \o CharAt(text, i))

\* the pieces occur in the text one after the other, from offset pos on
RECURSIVE InOrder(_, _, _)
InOrder(pieces, text, pos) ==
  \/ pieces = <<>>
  \/ LET at == IndexOf(text, Head(pieces), pos)
     IN /\ at # -1
        /\ InOrder(Tail(pieces), text, at + Len(Head(pieces)))

\* C28: the corrected text keeps every piece of the answer that lies outside
\* the spans of the corrections, unchanged and in the same order
C28_OutsideSpansKept ==
  pc = "done" =>
    InOrder(Untouched(responseText, Corrections, 0, ""), response.text, 0)

\* C29: a CorrectedResponse counts no more corrected claims than validated
\* claims and no more corrected lists than validated lists
C29_CountersConsistent ==
  pc = "done" =>
    /\ response.metadata.claimsCorrected <= response.metadata.claimsValidated
    /\ response.metadata.listsCorrected <= response.metadata.listsValidated

(***************************************************************************)
(* DANIAgent: the conversation store, processMessage, the agentic loop,    *)
(* trimConversationHistory and cleanupOldConversations.  One processMessage *)
(* call runs at a time; the cleanup timer and the clock run at every await. *)
(***************************************************************************)
\* const maxIterations = 10
maxIterations == 10

\* the number of processMessage calls
MaxCalls == 2

\* the largest configured maxConversationMessages
MaxHistory == 3

\* the last instant of the clock
MaxTime == 2

ConversationIds == {"c1"}

\* AgentConfig: maxConversationMessages (0 when it is not set) and
\* conversationTimeoutMinutes, which is the unit of the clock
AgentConfigs ==
  {[maxConversationMessages |-> m, conversationTimeoutMinutes |-> 1] :
     m \in {0} \cup 2..MaxHistory}

\* the Conversation getOrCreateConversation creates
Conversation(id) ==
  [id |-> id, messages |-> <<>>, createdAt |-> now, lastAccessedAt |-> now]

\* DANIAgent.trimConversationHistory: the messages after the splice
trimConversationHistory(messages) ==
  LET maxMessages == agentConfig.maxConversationMessages
  IN IF maxMessages = 0 \/ Len(messages) <= maxMessages THEN messages
     ELSE SubSeq(messages, Len(messages) - maxMessages + 1, Len(messages))

\* conversation.messages.push(message), followed by the trim where the code
\* trims
Pushed(message, trim) ==
  [heap EXCEPT ![call.ref].messages =
     IF trim THEN trimConversationHistory(Append(@, message))
     ELSE Append(@, message)]

\* a loop that allows one iteration more
IterationsExceeded_Late(iteration) == iteration > maxIterations + 1

\* the test at the head of agenticLoop
IterationsExceeded(iteration) == iteration > maxIterations

\* agenticLoop(conversation, complexity, iteration) up to its first await:
\* it throws, which ends processMessage, or sends the messages to the LLM
agenticLoop(iteration) ==
  IF IterationsExceeded(iteration)
  THEN /\ pc' = "idle"
       /\ call' = [call EXCEPT !.iteration = iteration,
                                !.outcome = "exceeded"]
  ELSE /\ pc' = "llm"
       /\ call' = [call EXCEPT !.iteration = iteration, !.llmCalls = @ + 1]

AgentInit ==
  /\ pc = "idle"
  /\ conversations = [id \in {} |-> 0]
  /\ heap = <<>>
  /\ call = [id |-> "", ref |-> 0, iteration |-> 0, llmCalls |-> 0,
             toolRounds |-> 0, outcome |-> "none", started |-> 0]
  /\ agentConfig \in AgentConfigs
  /\ now = 0
  /\ responseText = Idle /\ toolResultsCache = <<>> /\ toolResults = <<>>
  /\ parsed = Idle /\ validations = <<>> /\ mismatches = <<>>
  /\ response = Idle
  /\ vClaim = Idle /\ vConfig = Idle /\ vResult = Idle
  /\ cText = Idle /\ cPool = Idle /\ cOut = Idle

\* processMessage up to its first await: getOrCreateConversation
ProcessMessage ==
  /\ pc = "idle"
  /\ call.started < MaxCalls
  /\ \E id \in ConversationIds :
       LET known == id \in DOMAIN conversations
           ref == IF known THEN conversations[id] ELSE Len(heap) + 1
       IN /\ heap' = IF known THEN heap ELSE Append(heap, Conversation(id))
          /\ conversations' =
               [i \in DOMAIN conversations \cup {id} |->
                  IF i = id THEN ref ELSE conversations[i]]
          /\ call' = [id |-> id, ref |-> ref, iteration |-> 0,
                      llmCalls |-> 0, toolRounds |-> 0, outcome |-> "none",
                      started |-> call.started + 1]
  /\ pc' = "analyze"
  /\ UNCHANGED <<agentConfig, now, engineVars>>

\* the complexity is known: the user message is pushed, the history trimmed
\* and the agentic loop entered
UserMessage ==
  /\ pc = "analyze"
  /\ heap' = Pushed("user", TRUE)
  /\ agenticLoop(1)
  /\ UNCHANGED <<conversations, agentConfig, now, engineVars>>

\* the LLM's response requests tools: it is pushed and the tools are run
ToolUse ==
  /\ pc = "llm"
  /\ heap' = Pushed("tool_use", FALSE)
  /\ call' = [call EXCEPT !.toolRounds = @ + 1]
  /\ pc' = "tools"
  /\ UNCHANGED <<conversations, agentConfig, now, engineVars>>

\* the tools have run: their results are pushed, the history is trimmed and
\* the loop continues with the next iteration
ToolResults ==
  /\ pc = "tools"
  /\ heap' = Pushed("tool_result", TRUE)
  /\ agenticLoop(call.iteration + 1)
  /\ UNCHANGED <<conversations, agentConfig, now, engineVars>>

\* the LLM's response requests no tool: the answer is pushed, agenticLoop
\* returns and processMessage stamps the conversation
FinalAnswer ==
  /\ pc = "llm"
  /\ heap' = [Pushed("assistant", FALSE) EXCEPT
               ![call.ref].lastAccessedAt = now]
  /\ call' = [call EXCEPT !.outcome = "returned"]
  /\ pc' = "idle"
  /\ UNCHANGED <<conversations, agentConfig, now, engineVars>>

\* sendMessage rejects: the error leaves agenticLoop and processMessage
\* rethrows it
SendMessageFails ==
  /\ pc = "llm"
  /\ call' = [call EXCEPT !.outcome = "failed"]
  /\ pc' = "idle"
  /\ UNCHANGED <<conversations, heap, agentConfig, now, engineVars>>

\* the clock advances
Tick ==
  /\ now < MaxTime
  /\ now' = now + 1
  /\ UNCHANGED <<pc, conversations, heap, call, agentConfig, engineVars>>

\* DANIAgent.cleanupOldConversations, run by the interval timer
CleanupOldConversations ==
  /\ conversations' =
       [id \in {i \in DOMAIN conversations :
                  now - heap[conversations[i]].lastAccessedAt
                    <= agentConfig.conversationTimeoutMinutes} |->
          conversations[id]]
  /\ UNCHANGED <<pc, heap, call, agentConfig, now, engineVars>>

AgentNext ==
  \/ ProcessMessage
  \/ UserMessage
  \/ ToolUse
  \/ ToolResults
  \/ FinalAnswer
  \/ SendMessageFails
  \/ Tick
  \/ CleanupOldConversations

AgentSpec == AgentInit /\ [][AgentNext]_vars

InAgent == pc \in {"idle", "analyze", "llm", "tools"}

\* C25: a processMessage call sends at most 10 requests to the LLM; it
\* fails with the tenth response requesting tools, without an eleventh
\* request, and otherwise returns at the first response without tool use
C25_AtMostTenCalls ==
  InAgent =>
    /\ call.llmCalls <= 10
    /\ pc = "llm" => call.llmCalls = call.toolRounds + 1
    /\ pc = "tools" => call.llmCalls = call.toolRounds
    /\ call.outcome = "exceeded" =>
         call.llmCalls = 10 /\ call.toolRounds = 10
    /\ call.outcome = "returned" => call.llmCalls = call.toolRounds + 1

\* ten responses in a row requested tools and the call failed
C25_Witness ==
  /\ InAgent
  /\ call.outcome = "exceeded"
  /\ call.llmCalls = 10

\* C26: with maxConversationMessages set, the history of the conversation
\* holds at most that many messages when processMessage has returned
C26_HistoryBounded ==
  (/\ InAgent
   /\ pc = "idle" /\ call.outcome = "returned"
   /\ agentConfig.maxConversationMessages > 0) =>
    Len(heap[call.ref].messages) <= agentConfig.maxConversationMessages

\* C30: while a processMessage call is in progress its conversation is in
\* the store
C30_KeptWhileInProgress ==
  (InAgent /\ pc # "idle") =>
    /\ call.id \in DOMAIN conversations
    /\ conversations[call.id] = call.ref

====
